---- MODULE Spec2Model ----
(***************************************************************************)
(* A model of the MCP transport layer of MCP-CHATBOT-HOST:                 *)
(*   - MCPClient          (src/client.py): a child process, a reader       *)
(*     thread that decodes Content-Length frames into response_queue, and  *)
(*     callers that wait for the response to the id they sent;             *)
(*   - StdioMCPClient     (src/clients/stdio.py): an asyncio client that   *)
(*     writes one JSON line per request and reads the next line back;      *)
(*   - HTTPMCPClient.call (src/clients/http.py): one POST per call.        *)
(* Each client object owns its state and shares none with another, so one  *)
(* behaviour follows one object: `mode` says which.                        *)
(***************************************************************************)
EXTENDS Integers, Sequences, FiniteSets, TLC

VARIABLES
  mode,            \* which client object this behaviour follows
  \* ---- MCPClient (src/client.py)
  threads,         \* the threads that call into the client
  proc,            \* self.process: "none", "running", "exited"
  stderrText,      \* what the child wrote to its standard error
  id_,             \* self._id
  initialized,     \* self._initialized
  response_queue,  \* self.response_queue, head first
  childInbox,      \* ids of the requests the child has read and not answered
  th,              \* per calling thread: its position and locals
  constructed,     \* MCPClient.__init__ has returned
  sentLog,         \* ids written to the child's stdin, in order
  received,        \* ids of the responses the reader has put on the queue
  returnedLog,     \* {[sent, waited, got, n]}: responses handed to callers
  requeued,        \* n of the responses a waiter has put back on the queue
  timedOut         \* ids whose _wait_for_response raised its timeout

VARIABLES
  \* ---- StdioMCPClient (src/clients/stdio.py)
  sSpawned,        \* how many child processes create_subprocess_exec started
  sRunning,        \* which of them are running (self.process is the last)
  sStderr,         \* what the current child wrote to its standard error
  next_id,         \* self._next_id
  sLines,          \* response lines on the current child's stdout, unread
  sInbox,          \* ids the current child has read and not answered
  co,              \* the calling coroutine: its position and locals
  sSentLog,        \* ids written to a child's stdin, in order
  sReturned,       \* {[sent, got]}: responses handed back to callers
  sReady,          \* initialize() has returned the tool list
  sTimedOut        \* ids whose wait for a line timed out

VARIABLES
  \* ---- HTTPMCPClient (src/clients/http.py)
  hId,             \* self._id
  hSentLog,        \* ids posted, in order
  hOutcome,        \* what the last call returned or raised
  hTools,          \* self._tools
  hInit            \* what the last initialize() returned or raised

VARIABLES
  \* ---- MCPClient._read_stdout, the reader thread, and its child's stdout
  rFrames,         \* the frames the child writes, in order
  rStream,         \* their bytes
  rWritten,        \* how many of the bytes the child has written so far
  rRead,           \* how many of them the text layer has consumed
  rProc,           \* the child: "running" or "exited"
  rPc,             \* the reader: "poll", "read", "body" or "done"
  rBuffer,         \* buffer
  rLength,         \* content_length, while the body is being read
  rQueue           \* what the reader has put on response_queue

VARIABLES
  \* ---- close() of a process-backend client (client.py, clients/stdio.py)
  kClass,          \* the class of the client: "MCPClient", "StdioMCPClient"
  kProcess,        \* self.process: "none", "running", "exited"
  kIgnoresTerm,    \* the child ignores the termination request (SIGTERM)
  kSignals,        \* the signals the client has sent to the child
  kPc,             \* where close() is: "idle" when no close() is running
  kElapsed,        \* seconds the bounded wait of close() has lasted
  kCloses          \* how many times close() has been called

VARIABLES
  \* ---- ModularMCPChatbot (src/core/chatbot.py, src/chatbot.py)
  orchestrator,    \* "core": src/core/chatbot.py, "legacy": src/chatbot.py
  configFile,      \* the entries of servers.yaml, in document order
  config,          \* what yaml.safe_load made of them, in dict order
  cPc,             \* "start", "load", "chat" or "done"
  cIdx,            \* where load_mcps is in config.items()
  mcps,            \* self.mcps, in dict order
  reports,         \* what loading printed for each backend, in order
  children,        \* the clients whose child process is running
  closed,          \* the clients on which close() has been invoked
  lastCall,        \* the last call_mcp_tool: its arguments and its result
  erred,           \* an earlier call_mcp_tool gave back an error string
  requested,       \* call_anthropic_with_tools has built a request
  catalog,         \* what get_anthropic_tools() returned last
  payloadTools,    \* payload["tools"] of the last request to the LLM
  turnDispatch     \* the tool_use block of the last request and the calls
                   \* of call_mcp_tool made for it

VARIABLES
  \* ---- two backends on one event loop: A (stdio) and B (http)
  aPc,             \* the call to A: "idle", "read" (awaiting readline), "done"
  aElapsed,        \* seconds the call to A has waited for its line
  aLine,           \* A's child has written its response line
  aOutcome,        \* how the call to A ended: "ok", "timeout"
  bPc,             \* the call to B: "idle", "posting" (inside requests.post), "done"
  bElapsed,        \* seconds the POST to B has lasted
  bServer,         \* B's server: "ok", "down" (refuses), "silent"
  bOutcome         \* how the call to B ended: "ok", "error"

VARIABLES
  \* ---- the normalization of a tool result (_process_result)
  nKind,           \* the client that normalized: "stdio", "http", "fastmcp"
  nContent,        \* result["content"]: the list of blocks
  nText            \* the string the client returned

VARIABLES
  \* ---- the conversation of ModularMCPChatbot.chat
  apiKey,                \* ANTHROPIC_API_KEY is set
  conversation_history,  \* self.conversation_history: (role, content) pairs
  messages,              \* the message list of the last request to the LLM
  sentAt                 \* len(conversation_history) when it was built, or -1

VARIABLES
  \* ---- the response loop of call_anthropic_with_tools
  tool_server_mapping,   \* tool name -> server, "" for a name not in it
  tBlocks,               \* result["content"]: the blocks of the response
  tIdx,                  \* the block the loop is at
  tPc,                   \* "loop", "calling" (awaiting call_mcp_tool), "done"
  response_text,         \* the text blocks met so far, by position
  tool_results,          \* the tool-result entries
  tEvents                \* the starts and returns of call_mcp_tool

VARIABLES
  \* ---- what a client writes to its child's stdin for one request
  wKind,           \* the client that wrote: "MCPClient", "StdioMCPClient"
  wRequest,        \* the request: its id and its method
  wBytes           \* the characters written

VARIABLES
  \* ---- a bundled stdio server (src/mymcpserver) and its stdin
  vServer,         \* "main" (main.py) or "other" (other.py)
  vStream,         \* the request frames on stdin that were not read yet
  vSynced,         \* the next character of stdin starts a frame
  vLog             \* the frames read, each with what was written for it

clientVars == <<threads, proc, stderrText, id_, initialized, response_queue,
                childInbox, th, constructed, sentLog, received, returnedLog,
                 requeued, timedOut>>
stdioVars == <<sSpawned, sRunning, sStderr, next_id, sLines, sInbox, co,
               sSentLog, sReturned, sReady, sTimedOut>>
httpVars == <<hId, hSentLog, hOutcome, hTools, hInit>>
readerVars == <<rFrames, rStream, rWritten, rRead, rProc, rPc, rBuffer,
                rLength, rQueue>>

closeVars == <<kClass, kProcess, kIgnoresTerm, kSignals, kPc, kElapsed,
               kCloses>>
\* The state of the host around the clients: close(), the orchestrator.
chatVars == <<orchestrator, configFile, config, cPc, cIdx, mcps, reports,
              children, closed, lastCall, erred, requested, catalog,
              payloadTools, turnDispatch>>
loopVars == <<aPc, aElapsed, aLine, aOutcome, bPc, bElapsed, bServer,
              bOutcome>>
normVars == <<nKind, nContent, nText>>
\* The state of the parts that are followed on their own.
histVars == <<apiKey, conversation_history, messages, sentAt>>
turnVars == <<tool_server_mapping, tBlocks, tIdx, tPc, response_text,
              tool_results, tEvents>>
wireVars == <<wKind, wRequest, wBytes>>
serverVars == <<vServer, vStream, vSynced, vLog>>
partVars == <<normVars, histVars, turnVars, wireVars, serverVars>>
hostVars == <<closeVars, chatVars, loopVars, partVars>>

vars == <<mode, clientVars, stdioVars, httpVars, readerVars, hostVars>>

\* What an action of one client leaves alone: the other clients.
OnlyClient == UNCHANGED <<mode, stdioVars, httpVars, readerVars, hostVars>>
OnlyStdio == UNCHANGED <<mode, clientVars, httpVars, readerVars, hostVars>>
OnlyHttp == UNCHANGED <<mode, clientVars, stdioVars, readerVars, hostVars>>
OnlyReader == UNCHANGED <<mode, clientVars, stdioVars, httpVars, hostVars>>
\* What an action of the host leaves alone: the inside of the clients.
OnlyHost ==
  UNCHANGED <<mode, clientVars, stdioVars, httpVars, readerVars>>
OnlyClose == OnlyHost /\ UNCHANGED <<chatVars, loopVars, partVars>>
OnlyChat == OnlyHost /\ UNCHANGED <<closeVars, loopVars, partVars>>
OnlyLoop == OnlyHost /\ UNCHANGED <<closeVars, chatVars, partVars>>
OnlyPart == OnlyHost /\ UNCHANGED <<closeVars, chatVars, loopVars>>
OnlyNorm == OnlyPart /\ UNCHANGED <<histVars, turnVars, wireVars, serverVars>>
OnlyHist == OnlyPart /\ UNCHANGED <<normVars, turnVars, wireVars, serverVars>>
OnlyTurn == OnlyPart /\ UNCHANGED <<normVars, histVars, wireVars, serverVars>>
OnlyWire == OnlyPart /\ UNCHANGED <<normVars, histVars, turnVars, serverVars>>
OnlyServer == OnlyPart /\ UNCHANGED <<normVars, histVars, turnVars, wireVars>>

\* ------------------------------------------------------------------ bounds
\* No call starts once self._id has reached MaxId.
MaxId == 3
\* StdioMCPClient: no request is built once _next_id has passed MaxNextId,
\* and initialize() is called at most MaxSpawn times.
MaxNextId == 4
MaxSpawn == 2
\* The child of the reader writes at most MaxFrames frames.
MaxFrames == 2
\* close() is called at most MaxCloses times on one client.
MaxCloses == 2
\* servers.yaml has at most MaxConfig entries.
MaxConfig == 2
\* blocks in the content list of a tool result
MaxBlocks == 3
\* turns of a conversation
MaxTurns == 4
\* blocks in one response of the LLM
MaxResponse == 3
\* ids of the requests whose bytes are followed
MaxWireId == 12
\* request frames sent to a bundled server
MaxRequests == 2

\* ------------------------------------------------------- program constants
\* _wait_for_response(self, request_id, timeout=10)
Timeout == 10
\* self.response_queue.get(timeout=1)
GetTimeout == 1
\* time.sleep(1) in start_process
StartSleep == 1
\* asyncio.wait_for(self.process.stdout.readline(), timeout=10.0)
StdioTimeout == 10
\* asyncio.wait_for(self.process.wait(), timeout=5.0) in StdioMCPClient.close
CloseGrace == 5
\* MAX_CONVERSATION_HISTORY = 5
MAX_CONVERSATION_HISTORY == 5
\* requests.post(self.url, json=request, timeout=10)
HttpTimeout == 10

StderrTexts == {"bad config", ""}

\* A response: its JSON-RPC id, whether it carries "error", and (for the
\* bookkeeping only) n, the position in sentLog of the request it answers.
NoResp == [id |-> 0, err |-> FALSE, n |-> 0]
NoOutcome == [kind |-> "none", resp |-> 0, text |-> ""]

Min(a, b) == IF a < b THEN a ELSE b

\* A thread's record: pc is its position, phase says whether it is inside
\* initialize() or in the body of call(), op is the method the caller invoked.
IdleThread ==
  [pc |-> "idle", phase |-> "none", op |-> "none", tmp |-> 0, msgId |-> 0,
   waitId |-> 0, elapsed |-> 0, getElapsed |-> 0, held |-> NoResp,
   outcome |-> NoOutcome]

Finish(t, kind, respId, text) ==
  [th EXCEPT ![t] = [IdleThread EXCEPT !.outcome =
                       [kind |-> kind, resp |-> respId, text |-> text]]]

\* ---------------------------------------------------------------- MCPClient

\* MCPClient.__init__: the fields, then start_process().
InitClient(ts) ==
  /\ threads = ts
  /\ proc = "none"
  /\ stderrText = ""
  /\ id_ = 0
  /\ initialized = FALSE
  /\ response_queue = <<>>
  /\ childInbox = {}
  /\ th = [t \in ts |-> IF t = 1 THEN [IdleThread EXCEPT !.pc = "new"]
                                 ELSE IdleThread]
  /\ constructed = FALSE
  /\ sentLog = <<>>
  /\ received = {}
  /\ returnedLog = {}
  /\ requeued = {}
  /\ timedOut = {}

\* start_process: Popen, start the reader thread, then time.sleep(1).
\* Popen raises when the executable cannot be launched; the except clause
\* re-raises, so the constructor fails.
StartProcess(t) ==
  /\ mode = "MCPClient"
  /\ th[t].pc = "new"
  /\ \/ /\ proc' = "running"
        /\ th' = [th EXCEPT ![t].pc = "sleep", ![t].getElapsed = 0]
     \/ /\ proc' = proc
        /\ th' = [th EXCEPT ![t].pc = "failed",
                            ![t].outcome = [kind |-> "spawnerror", resp |-> 0,
                                            text |-> ""]]
  /\ UNCHANGED <<threads, stderrText, id_, initialized, response_queue,
                 childInbox, constructed, sentLog, received, returnedLog,
                 requeued, timedOut>>
  /\ OnlyClient

\* After the sleep: process.poll(); a dead child raises RuntimeError with the
\* text read from its stderr.
PollAfterSleep(t) ==
  /\ mode = "MCPClient"
  /\ th[t].pc = "sleep"
  /\ th[t].getElapsed >= StartSleep
  /\ IF proc = "exited"
       THEN /\ th' = [th EXCEPT ![t].pc = "failed",
                                ![t].outcome = [kind |-> "processdied",
                                                resp |-> 0,
                                                text |-> stderrText]]
            /\ constructed' = constructed
       ELSE /\ th' = [th EXCEPT ![t] = IdleThread]
            /\ constructed' = TRUE
  /\ UNCHANGED <<threads, proc, stderrText, id_, initialized,
                 response_queue, childInbox, sentLog, received, returnedLog,
                 requeued, timedOut>>
  /\ OnlyClient

\* (a variant of NextRequestId that forgets the increment)
NextRequestIdStuck(cur) == cur

\* self._id += 1
NextRequestId(cur) == cur + 1

\* response.get("id") == request_id
Matches(response, request_id) == response.id = request_id

\* (a variant of Requeue that drops the response instead of putting it back)
RequeueDropped(q, response) == q

\* self.response_queue.put(response), for a response with another id
Requeue(q, response) == Append(q, response)

\* call(): initialize first unless already initialized, then the request.
CallBegin(t) ==
  /\ mode = "MCPClient"
  /\ constructed
  /\ th[t].pc = "idle"
  /\ id_ < MaxId
  /\ th' = [th EXCEPT ![t] = [IdleThread EXCEPT
                !.pc = "load", !.op = "call",
                !.phase = IF initialized THEN "call" ELSE "init"]]
  /\ UNCHANGED <<threads, proc, stderrText, id_, initialized, response_queue,
                 childInbox, constructed, sentLog, received, returnedLog,
                 requeued, timedOut>>
  /\ OnlyClient

\* initialize() called by itself: returns True at once when initialized.
InitializeBegin(t) ==
  /\ mode = "MCPClient"
  /\ constructed
  /\ th[t].pc = "idle"
  /\ IF initialized
       THEN th' = Finish(t, "true", 0, "")
       ELSE /\ id_ < MaxId
            /\ th' = [th EXCEPT ![t] = [IdleThread EXCEPT
                          !.pc = "load", !.op = "initialize",
                          !.phase = "init"]]
  /\ UNCHANGED <<threads, proc, stderrText, id_, initialized, response_queue,
                 childInbox, constructed, sentLog, received, returnedLog,
                 requeued, timedOut>>
  /\ OnlyClient

\* self._id += 1 is a load and a store; another thread may run in between.
IncLoad(t) ==
  /\ mode = "MCPClient"
  /\ th[t].pc = "load"
  /\ th' = [th EXCEPT ![t].tmp = id_, ![t].pc = "store"]
  /\ UNCHANGED <<threads, proc, stderrText, id_, initialized, response_queue,
                 childInbox, constructed, sentLog, received, returnedLog,
                 requeued, timedOut>>
  /\ OnlyClient

IncStore(t) ==
  /\ mode = "MCPClient"
  /\ th[t].pc = "store"
  /\ id_' = NextRequestId(th[t].tmp)
  /\ th' = [th EXCEPT ![t].pc = "build"]
  /\ UNCHANGED <<threads, proc, stderrText, initialized, response_queue,
                 childInbox, constructed, sentLog, received, returnedLog,
                 requeued, timedOut>>
  /\ OnlyClient

\* The message is built with "id": self._id, read after the increment.
BuildMessage(t) ==
  /\ mode = "MCPClient"
  /\ th[t].pc = "build"
  /\ th' = [th EXCEPT ![t].msgId = id_, ![t].pc = "send"]
  /\ UNCHANGED <<threads, proc, stderrText, id_, initialized, response_queue,
                 childInbox, constructed, sentLog, received, returnedLog,
                 requeued, timedOut>>
  /\ OnlyClient

\* _send_message: write and flush; a write to a child that has exited raises,
\* and neither initialize() nor call() catches it.
SendMessage(t) ==
  /\ mode = "MCPClient"
  /\ th[t].pc = "send"
  /\ IF proc = "running"
       THEN /\ sentLog' = Append(sentLog, th[t].msgId)
            /\ childInbox' = childInbox \cup
                 {[n |-> Len(sentLog) + 1, id |-> th[t].msgId]}
            /\ th' = [th EXCEPT ![t].pc = "waitcall"]
       ELSE /\ th' = Finish(t, "senderror", 0, "")
            /\ UNCHANGED <<sentLog, childInbox>>
  /\ UNCHANGED <<threads, proc, stderrText, id_, initialized, response_queue,
                 constructed, received, returnedLog,
                 requeued, timedOut>>
  /\ OnlyClient

\* self._wait_for_response(self._id): the argument is read now; start_time.
WaitCall(t) ==
  /\ mode = "MCPClient"
  /\ th[t].pc = "waitcall"
  /\ th' = [th EXCEPT ![t].waitId = id_, ![t].elapsed = 0, ![t].pc = "loop"]
  /\ UNCHANGED <<threads, proc, stderrText, id_, initialized, response_queue,
                 childInbox, constructed, sentLog, received, returnedLog,
                 requeued, timedOut>>
  /\ OnlyClient

\* What the caller gets when _wait_for_response raises its timeout:
\* initialize() catches it and returns False, and call() then raises
\* "Failed to initialize"; in the body of call() it is re-raised.
TimeoutKind(phase, op) ==
  IF phase = "init"
    THEN (IF op = "initialize" THEN "false" ELSE "initfailed")
    ELSE "timeout"

\* while time.time() - start_time < timeout
LoopCheck(t) ==
  /\ mode = "MCPClient"
  /\ th[t].pc = "loop"
  /\ IF th[t].elapsed < Timeout
       THEN /\ th' = [th EXCEPT ![t].pc = "get", ![t].getElapsed = 0]
            /\ timedOut' = timedOut
       ELSE /\ th' = Finish(t, TimeoutKind(th[t].phase, th[t].op), 0, "")
            /\ timedOut' = timedOut \cup {th[t].waitId}
  /\ UNCHANGED <<threads, proc, stderrText, id_, initialized, response_queue,
                 childInbox, constructed, sentLog, received, returnedLog,
                 requeued>>
  /\ OnlyClient

\* response_queue.get(timeout=1) returns the head whenever there is one.
GetItem(t) ==
  /\ mode = "MCPClient"
  /\ th[t].pc = "get"
  /\ response_queue /= <<>>
  /\ th' = [th EXCEPT ![t].held = Head(response_queue), ![t].pc = "check"]
  /\ response_queue' = Tail(response_queue)
  /\ UNCHANGED <<threads, proc, stderrText, id_, initialized,
                 childInbox, constructed, sentLog, received, returnedLog,
                 requeued, timedOut>>
  /\ OnlyClient

\* ... and raises queue.Empty after a second with nothing in the queue.
GetEmpty(t) ==
  /\ mode = "MCPClient"
  /\ th[t].pc = "get"
  /\ response_queue = <<>>
  /\ th[t].getElapsed >= GetTimeout
  /\ th' = [th EXCEPT ![t].pc = "loop"]
  /\ UNCHANGED <<threads, proc, stderrText, id_, initialized, response_queue,
                 childInbox, constructed, sentLog, received, returnedLog,
                 requeued, timedOut>>
  /\ OnlyClient

\* The response with the awaited id is returned; any other is put back.
CheckResponse(t) ==
  /\ mode = "MCPClient"
  /\ th[t].pc = "check"
  /\ LET r == th[t].held IN
     IF Matches(r, th[t].waitId)
       THEN /\ returnedLog' = returnedLog \cup
                 {[sent |-> th[t].msgId, waited |-> th[t].waitId,
                   got |-> r.id, n |-> r.n]}
            /\ response_queue' = response_queue
            /\ requeued' = requeued
            /\ IF th[t].phase = "init"
                 THEN IF r.err
                   THEN /\ th' = Finish(t, TimeoutKind("init", th[t].op),
                                        r.id, "")
                        /\ initialized' = initialized
                   ELSE /\ initialized' = TRUE
                        /\ IF th[t].op = "initialize"
                             THEN th' = Finish(t, "true", r.id, "")
                             ELSE th' = [th EXCEPT ![t] = [IdleThread EXCEPT
                                           !.pc = "load", !.op = "call",
                                           !.phase = "call"]]
                 ELSE /\ th' = Finish(t, IF r.err THEN "methoderror" ELSE "ok",
                                      r.id, "")
                      /\ initialized' = initialized
       ELSE /\ response_queue' = Requeue(response_queue, r)
            /\ requeued' = requeued \cup {r.n}
            /\ th' = [th EXCEPT ![t].held = NoResp, ![t].pc = "loop"]
            /\ UNCHANGED <<returnedLog, initialized>>
  /\ UNCHANGED <<threads, proc, stderrText, id_, childInbox, constructed,
                 sentLog, received, timedOut>>
  /\ OnlyClient

\* The child answers a request it has read, in whatever order it likes, and
\* the reader thread puts the decoded response on the queue
\* (self.response_queue.put(response)); the reader runs only while
\* process.poll() is None.
ReaderPut(req, err) ==
  /\ mode = "MCPClient"
  /\ proc = "running"
  /\ req \in childInbox
  /\ childInbox' = childInbox \ {req}
  /\ response_queue' = Append(response_queue,
                              [id |-> req.id, err |-> err, n |-> req.n])
  /\ received' = received \cup {req.n}
  /\ UNCHANGED <<threads, proc, stderrText, id_, initialized, th, constructed,
                 sentLog, returnedLog,
                 requeued, timedOut>>
  /\ OnlyClient

\* The child process exits, leaving some text on its standard error.
ChildExit(text) ==
  /\ mode = "MCPClient"
  /\ proc = "running"
  /\ proc' = "exited"
  /\ stderrText' = text
  /\ UNCHANGED <<threads, id_, initialized, response_queue, childInbox, th,
                 constructed, sentLog, received, returnedLog,
                 requeued, timedOut>>
  /\ OnlyClient

\* A second passes on the wall clock: every running timer advances (a timer
\* that has reached the value the code compares it with stays there).
Ticked(r) ==
  [r EXCEPT
     !.elapsed = IF r.pc \in {"loop", "get", "check"}
                   THEN Min(r.elapsed + 1, Timeout) ELSE r.elapsed,
     !.getElapsed = IF r.pc = "get" THEN Min(r.getElapsed + 1, GetTimeout)
                    ELSE IF r.pc = "sleep"
                      THEN Min(r.getElapsed + 1, StartSleep)
                      ELSE r.getElapsed]

Tick ==
  /\ mode = "MCPClient"
  /\ th' = [t \in threads |-> Ticked(th[t])]
  /\ th' /= th
  /\ UNCHANGED <<threads, proc, stderrText, id_, initialized, response_queue,
                 childInbox, constructed, sentLog, received, returnedLog,
                 requeued, timedOut>>
  /\ OnlyClient

NextClient ==
  \/ \E t \in threads :
       \/ StartProcess(t) \/ PollAfterSleep(t)
       \/ CallBegin(t) \/ InitializeBegin(t)
       \/ IncLoad(t) \/ IncStore(t) \/ BuildMessage(t) \/ SendMessage(t)
       \/ WaitCall(t) \/ LoopCheck(t) \/ GetItem(t) \/ GetEmpty(t)
       \/ CheckResponse(t)
  \/ \E req \in childInbox, err \in BOOLEAN : ReaderPut(req, err)
  \/ \E text \in StderrTexts : ChildExit(text)
  \/ Tick

\* ----------------------------------------------------------- StdioMCPClient

\* What a finished operation left: how it ended, the id of the response it
\* took, the text its error carries, and (for the bookkeeping) the operation,
\* the id of its last request and whether the child had exited by then.
NoCoOutcome == [kind |-> "none", resp |-> 0, text |-> "", op |-> "none",
                req |-> 0, died |-> FALSE]

IdleCo == [pc |-> "idle", op |-> "none", step |-> 0, reqId |-> 0,
           elapsed |-> 0, outcome |-> NoCoOutcome]

\* StdioMCPClient.__init__
InitStdio ==
  /\ sSpawned = 0
  /\ sRunning = {}
  /\ sStderr = ""
  /\ next_id = 1
  /\ sLines = <<>>
  /\ sInbox = {}
  /\ co = IdleCo
  /\ sSentLog = <<>>
  /\ sReturned = {}
  /\ sReady = FALSE
  /\ sTimedOut = {}

\* The current child, self.process, is the one spawned last.
CurrentRunning == sSpawned \in sRunning

CoFinish(kind, respId, text) ==
  [IdleCo EXCEPT !.outcome =
     [kind |-> kind, resp |-> respId, text |-> text, op |-> co.op,
      req |-> co.reqId, died |-> sSpawned > 0 /\ ~CurrentRunning]]

\* initialize(): create_subprocess_exec, whatever the state of the client;
\* the new process replaces self.process and nothing stops the old one.
\* Then _send_request("initialize") and _send_request("tools/list").
StdioInitializeBegin ==
  /\ mode = "StdioMCPClient"
  /\ co.pc = "idle"
  /\ sSpawned < MaxSpawn
  /\ next_id <= MaxNextId
  /\ \/ /\ sSpawned' = sSpawned + 1
        /\ sRunning' = sRunning \cup {sSpawned + 1}
        /\ sStderr' = ""
        /\ sLines' = <<>>
        /\ sInbox' = {}
        /\ co' = [IdleCo EXCEPT !.pc = "send", !.op = "initialize",
                                !.step = 1]
     \/ /\ co' = [CoFinish("spawnerror", 0, "") EXCEPT
                    !.outcome.op = "initialize", !.outcome.died = FALSE]
        /\ UNCHANGED <<sSpawned, sRunning, sStderr, sLines, sInbox>>
  /\ UNCHANGED <<next_id, sSentLog, sReturned, sReady, sTimedOut>>
  /\ OnlyStdio

\* call_tool(): _send_request("tools/call"), which raises at once when
\* self.process is None.
StdioCallToolBegin ==
  /\ mode = "StdioMCPClient"
  /\ co.pc = "idle"
  /\ next_id <= MaxNextId
  /\ IF sSpawned = 0
       THEN co' = [CoFinish("notinitialized", 0, "") EXCEPT
                     !.outcome.op = "call_tool"]
       ELSE co' = [IdleCo EXCEPT !.pc = "send", !.op = "call_tool"]
  /\ UNCHANGED <<sSpawned, sRunning, sStderr, next_id, sLines, sInbox,
                 sSentLog, sReturned, sReady, sTimedOut>>
  /\ OnlyStdio

\* self._next_id += 1, after the request took the old value
StdioNextId(cur) == cur + 1

\* _send_request, up to the drain: the request takes self._next_id, which is
\* then incremented (no await in between), and the line is written.  A write
\* to a child that has exited either makes drain() raise or is lost without
\* an error, as the event loop has or has not yet seen the pipe close.
StdioSend ==
  /\ mode = "StdioMCPClient"
  /\ co.pc = "send"
  /\ next_id' = StdioNextId(next_id)
  /\ sSentLog' = Append(sSentLog, next_id)
  /\ IF CurrentRunning
       THEN /\ sInbox' = sInbox \cup {next_id}
            /\ co' = [co EXCEPT !.pc = "read", !.reqId = next_id,
                                !.elapsed = 0]
       ELSE /\ sInbox' = sInbox
            /\ \/ co' = [CoFinish("senderror", 0, "") EXCEPT
                           !.outcome.req = next_id]
               \/ co' = [co EXCEPT !.pc = "read", !.reqId = next_id,
                                   !.elapsed = 0]
  /\ UNCHANGED <<sSpawned, sRunning, sStderr, sLines, sReturned, sReady, sTimedOut>>
  /\ OnlyStdio

\* readline() returned a line: it is parsed and, without a look at its id,
\* taken as the response: "error" raises, otherwise the result is returned.
\* In initialize() the second request follows the first.
StdioReadLine ==
  /\ mode = "StdioMCPClient"
  /\ co.pc = "read"
  /\ sLines /= <<>>
  /\ LET r == Head(sLines) IN
     /\ sLines' = Tail(sLines)
     /\ sReturned' = sReturned \cup {[sent |-> co.reqId, got |-> r.id]}
     /\ IF r.err
          THEN /\ co' = CoFinish("servererror", r.id, "")
               /\ UNCHANGED sReady
          ELSE /\ IF co.op = "initialize" /\ co.step = 1
                    THEN /\ co' = [co EXCEPT !.pc = "send", !.step = 2]
                         /\ sReady' = sReady
                    ELSE /\ co' = CoFinish("ok", r.id, "")
                         /\ sReady' = (sReady \/ co.op = "initialize")
  /\ UNCHANGED <<sSpawned, sRunning, sStderr, next_id, sInbox, sSentLog,
                 sTimedOut>>
  /\ OnlyStdio

\* readline() returned b"" (end of file, the child has exited):
\* RuntimeError("No response from server").
StdioReadEof ==
  /\ mode = "StdioMCPClient"
  /\ co.pc = "read"
  /\ sLines = <<>>
  /\ ~CurrentRunning
  /\ co' = CoFinish("noresponse", 0, "")
  /\ UNCHANGED <<sSpawned, sRunning, sStderr, next_id, sLines, sInbox,
                 sSentLog, sReturned, sReady, sTimedOut>>
  /\ OnlyStdio

\* asyncio.TimeoutError: RuntimeError("Timeout waiting for server response").
StdioReadTimeout ==
  /\ mode = "StdioMCPClient"
  /\ co.pc = "read"
  /\ sLines = <<>>
  /\ co.elapsed >= StdioTimeout
  /\ co' = CoFinish("timeout", 0, "")
  /\ sTimedOut' = sTimedOut \cup {co.reqId}
  /\ UNCHANGED <<sSpawned, sRunning, sStderr, next_id, sLines, sInbox,
                 sSentLog, sReturned, sReady>>
  /\ OnlyStdio

\* The current child answers a request it has read with a line on stdout.
StdioChildRespond(i, err) ==
  /\ mode = "StdioMCPClient"
  /\ CurrentRunning
  /\ i \in sInbox
  /\ sInbox' = sInbox \ {i}
  /\ sLines' = Append(sLines, [id |-> i, err |-> err, n |-> 0])
  /\ UNCHANGED <<sSpawned, sRunning, sStderr, next_id, co, sSentLog,
                 sReturned, sReady, sTimedOut>>
  /\ OnlyStdio

\* The current child exits, leaving some text on its standard error.
StdioChildExit(text) ==
  /\ mode = "StdioMCPClient"
  /\ CurrentRunning
  /\ sRunning' = sRunning \ {sSpawned}
  /\ sStderr' = text
  /\ UNCHANGED <<sSpawned, next_id, sLines, sInbox, co, sSentLog, sReturned,
                 sReady, sTimedOut>>
  /\ OnlyStdio

StdioTick ==
  /\ mode = "StdioMCPClient"
  /\ co.pc = "read"
  /\ co.elapsed < StdioTimeout
  /\ co' = [co EXCEPT !.elapsed = co.elapsed + 1]
  /\ UNCHANGED <<sSpawned, sRunning, sStderr, next_id, sLines, sInbox,
                 sSentLog, sReturned, sReady, sTimedOut>>
  /\ OnlyStdio

NextStdio ==
  \/ StdioInitializeBegin \/ StdioCallToolBegin
  \/ StdioSend \/ StdioReadLine \/ StdioReadEof \/ StdioReadTimeout
  \/ \E i \in sInbox, err \in BOOLEAN : StdioChildRespond(i, err)
  \/ \E text \in StderrTexts : StdioChildExit(text)
  \/ StdioTick

\* ------------------------------------------------------------ HTTPMCPClient

\* HTTPMCPClient.__init__
HttpToolLists == {<<>>, <<"t1">>, <<"t2", "t1">>}

NoInit == [kind |-> "none", tools |-> <<>>]

InitHttp ==
  /\ hId = 0
  /\ hSentLog = <<>>
  /\ hOutcome = NoOutcome
  /\ hTools \in IF mode = "HTTPMCPClient" THEN HttpToolLists ELSE {<<>>}
  /\ hInit = NoInit

\* self._id += 1
HttpNextId(cur) == cur + 1

\* call(): the id is incremented and used with no await in between; then one
\* blocking POST, which returns the result or raises (a transport error or
\* timeout, raise_for_status, or "error" in the body).
HttpCall(kind) ==
  /\ mode = "HTTPMCPClient"
  /\ hId < MaxId
  /\ hId' = HttpNextId(hId)
  /\ hSentLog' = Append(hSentLog, hId')
  /\ hOutcome' = [kind |-> kind, resp |-> IF kind = "ok" THEN hId' ELSE 0,
                  text |-> ""]
  /\ UNCHANGED <<hTools, hInit>>
  /\ OnlyHttp

HttpOutcomes == {"ok", "transporterror", "httperror", "remoteerror"}

\* The result of a tools/list that was answered: a dict with a "tools"
\* list of named tools, a result with no "tools" key, or a "tools" list
\* with an entry that has no "name" (KeyError in the comprehension).
ListShapes == {"tools", "notools", "badtools"}

\* `except Exception` around the body of initialize().
InitializeCatchesNothing(kind, shape) == FALSE
InitializeCatches(kind, shape) == kind /= "ok" \/ shape = "badtools"

\* initialize(): one call("tools/list"); self._tools is replaced only when
\* the call returned and the names could be read; returns self._tools.
HttpInitialize(kind, shape, listed) ==
  /\ mode = "HTTPMCPClient"
  /\ hId < MaxId
  /\ hId' = HttpNextId(hId)
  /\ hSentLog' = Append(hSentLog, hId')
  /\ hOutcome' = [kind |-> kind, resp |-> IF kind = "ok" THEN hId' ELSE 0,
                  text |-> ""]
  /\ LET failed == kind /= "ok" \/ shape = "badtools"
     IN /\ hTools' = IF kind = "ok" /\ shape = "tools" THEN listed ELSE hTools
        /\ hInit' = IF failed /\ ~InitializeCatches(kind, shape)
                      THEN [kind |-> "raised", tools |-> <<>>]
                      ELSE [kind |-> "returned", tools |-> hTools']
  /\ OnlyHttp

NextHttp ==
  \/ \E kind \in HttpOutcomes : HttpCall(kind)
  \/ \E kind \in HttpOutcomes, shape \in ListShapes, listed \in HttpToolLists :
       HttpInitialize(kind, shape, listed)

\* ------------------------------------------------- MCPClient._read_stdout

CR == "\r"
LF == "\n"
CRLFCRLF == <<CR, LF, CR, LF>>
\* "Content-Length:"
ContentLengthKey ==
  <<"C", "o", "n", "t", "e", "n", "t", "-", "L", "e", "n", "g", "t", "h", ":">>
DigitChars == <<"0", "1", "2", "3", "4", "5", "6", "7", "8", "9">>
Whitespace == {" ", "\t", CR, LF}

\* pat occurs in s at the 1-based position i
OccursAt(s, pat, i) ==
  /\ i + Len(pat) - 1 <= Len(s)
  /\ \A k \in 1..Len(pat) : s[i + k - 1] = pat[k]

\* pat in s
Contains(s, pat) == \E i \in 1..Len(s) : OccursAt(s, pat, i)

\* s.find(pat): the 0-based index of the first occurrence, or -1
Find(s, pat) ==
  IF Contains(s, pat)
    THEN (CHOOSE i \in 1..Len(s) :
            OccursAt(s, pat, i) /\ \A j \in 1..(i - 1) : ~OccursAt(s, pat, j))
         - 1
    ELSE -1

\* s[a:b], for 0 <= a
Slice(s, a, b) == SubSeq(s, a + 1, Min(b, Len(s)))

\* s[a:]
SliceFrom(s, a) == SubSeq(s, Min(a, Len(s)) + 1, Len(s))

\* s.split(sep)
RECURSIVE Split(_, _)
Split(s, sep) ==
  LET i == Find(s, sep) IN
  IF i = -1 THEN <<s>>
  ELSE <<Slice(s, 0, i)>> \o Split(SliceFrom(s, i + Len(sep)), sep)

\* s.strip()
RECURSIVE Strip(_)
Strip(s) ==
  IF s = <<>> THEN s
  ELSE IF s[1] \in Whitespace THEN Strip(Tail(s))
  ELSE IF s[Len(s)] \in Whitespace THEN Strip(SubSeq(s, 1, Len(s) - 1))
  ELSE s

DigitValue(c) == (CHOOSE k \in 1..10 : DigitChars[k] = c) - 1
IsDigit(c) == \E k \in 1..10 : DigitChars[k] = c

\* int(s) for a string of decimal digits; -1 stands for its ValueError
\* (signs, inner underscores and non-ASCII digits do not occur in the model).
RECURSIVE DigitsValue(_)
DigitsValue(s) ==
  IF s = <<>> THEN 0
  ELSE 10 * DigitsValue(SubSeq(s, 1, Len(s) - 1)) + DigitValue(s[Len(s)])
ParseInt(s) ==
  IF s /= <<>> /\ \A k \in 1..Len(s) : IsDigit(s[k]) THEN DigitsValue(s) ELSE -1

\* str(n) for n >= 0
RECURSIVE Decimal(_)
Decimal(n) ==
  IF n < 10 THEN <<DigitChars[n + 1]>>
  ELSE Decimal(n \div 10) \o <<DigitChars[(n % 10) + 1]>>

\* The JSON texts of the model: {"id":d} for a digit d is a message, and any
\* other text makes json.loads raise JSONDecodeError (here: 0).
MessageBody(d) == <<"{", "\"", "i", "d", "\"", ":", DigitChars[d + 1], "}">>
JsonLoads(body) ==
  IF \E d \in 0..9 : body = MessageBody(d)
    THEN CHOOSE d \in 0..9 : body = MessageBody(d)
    ELSE -1

\* _send_message: f"Content-Length: {len(json_str)}\r\n\r\n{json_str}"
\* (the bundled servers frame their responses the same way)
EncodeFrame(body) ==
  ContentLengthKey \o <<" ">> \o Decimal(Len(body)) \o CRLFCRLF \o body

\* The header's first line that starts with "Content-Length:" gives
\* int(line.split(":")[1].strip()); with no such line content_length stays 0.
\* -1 stands for the ValueError of int().
RECURSIVE LengthFromLines(_)
LengthFromLines(lines) ==
  IF lines = <<>> THEN 0
  ELSE IF OccursAt(lines[1], ContentLengthKey, 1)
    THEN ParseInt(Strip(Split(lines[1], <<":">>)[2]))
    ELSE LengthFromLines(Tail(lines))

HeaderLength(buf) ==
  LengthFromLines(Split(Slice(buf, 0, Find(buf, CRLFCRLF)), <<CR, LF>>))

BodyStart(buf) == Find(buf, CRLFCRLF) + 4

\* if "Content-Length:" in buffer and "\r\n\r\n" in buffer
HeaderComplete(buf) ==
  Contains(buf, ContentLengthKey) /\ Contains(buf, CRLFCRLF)

\* The frames a child may write.  "good" is a message framed as
\* _send_message frames it; "badjson" has a valid header and a body that is
\* not JSON; "badlength" has a Content-Length that int() rejects, and a body;
\* "nokey" is a header without Content-Length, and no body.
FrameKinds ==
  {[kind |-> "good", id |-> 1], [kind |-> "good", id |-> 2],
   [kind |-> "badjson", id |-> 0], [kind |-> "badlength", id |-> 0],
   [kind |-> "nokey", id |-> 0]}

FrameBytes(f) ==
  CASE f.kind = "good" -> EncodeFrame(MessageBody(f.id))
    [] f.kind = "badjson" -> EncodeFrame(<<"{", "x">>)
    [] f.kind = "badlength" ->
         ContentLengthKey \o <<" ", "x">> \o CRLFCRLF \o <<"{", "}">>
    [] OTHER -> <<"X", ":", "1">> \o CRLFCRLF

RECURSIVE StreamBytes(_)
StreamBytes(frames) ==
  IF frames = <<>> THEN <<>>
  ELSE FrameBytes(frames[1]) \o StreamBytes(Tail(frames))

FrameLists == UNION {[1..n -> FrameKinds] : n \in 0..MaxFrames}

InitReader(frames) ==
  /\ rFrames = frames
  /\ rStream = StreamBytes(rFrames)
  /\ rWritten = 0
  /\ rRead = 0
  /\ rProc = "running"
  /\ rPc = "poll"
  /\ rBuffer = <<>>
  /\ rLength = 0
  /\ rQueue = <<>>

\* The child writes the next bytes of its output: one byte, or all the rest.
ChildWrite(k) ==
  /\ mode = "reader"
  /\ rProc = "running"
  /\ rWritten < Len(rStream)
  /\ k \in {1, Len(rStream) - rWritten}
  /\ rWritten' = rWritten + k
  /\ UNCHANGED <<rFrames, rStream, rRead, rProc, rPc, rBuffer, rLength,
                 rQueue>>
  /\ OnlyReader

\* The child exits once it has written everything.
ReaderChildExit ==
  /\ mode = "reader"
  /\ rProc = "running"
  /\ rWritten = Len(rStream)
  /\ rProc' = "exited"
  /\ UNCHANGED <<rFrames, rStream, rWritten, rRead, rPc, rBuffer, rLength,
                 rQueue>>
  /\ OnlyReader

\* Popen(..., text=True): stdout is a text stream with universal newlines, so
\* read(1) gives "\n" for "\r\n" and for a lone "\r".  A "\r" that is the
\* last byte written so far is held back until the next byte or the end of
\* the stream is seen.  The result: the character and the bytes consumed;
\* n = 0 with c = "" when nothing can be returned yet, and c = "" with
\* eof set at the end of the stream.
TextRead ==
  LET avail == rWritten - rRead
      ended == rProc = "exited"
      b == rStream[rRead + 1]
  IN IF avail = 0
       THEN [c |-> "", n |-> 0, eof |-> ended]
     ELSE IF b /= CR
       THEN [c |-> b, n |-> 1, eof |-> FALSE]
     ELSE IF avail >= 2
       THEN [c |-> LF, n |-> IF rStream[rRead + 2] = LF THEN 2 ELSE 1,
             eof |-> FALSE]
     ELSE IF ended
       THEN [c |-> LF, n |-> 1, eof |-> FALSE]
     ELSE [c |-> "", n |-> 0, eof |-> FALSE]

\* The message body is cut from the buffer and parsed; a message is put on
\* the queue, a JSONDecodeError is printed; the buffer keeps what follows.
ExtractFrame(buf, len) ==
  LET start == BodyStart(buf)
      msg == JsonLoads(Slice(buf, start, start + len))
  IN [queue |-> IF msg = -1 THEN rQueue ELSE Append(rQueue, msg),
      buffer |-> SliceFrom(buf, start + len)]

\* while self.process and self.process.poll() is None
ReaderPoll ==
  /\ mode = "reader"
  /\ rPc = "poll"
  /\ rPc' = IF rProc = "running" THEN "read" ELSE "done"
  /\ UNCHANGED <<rFrames, rStream, rWritten, rRead, rProc, rBuffer, rLength,
                 rQueue>>
  /\ OnlyReader

\* One read(1) and what follows it up to the next read.
\* In the outer loop: the character joins the buffer; once the buffer holds
\* "Content-Length:" and "\r\n\r\n" the length is parsed (a ValueError
\* empties the buffer) and the body is read.  In the body loop: characters
\* are read until the buffer holds the body; the end of the stream ends the
\* loop early.
ReaderRead ==
  /\ mode = "reader"
  /\ rPc \in {"read", "body"}
  /\ LET r == TextRead
         buf == IF r.n > 0 THEN Append(rBuffer, r.c) ELSE rBuffer
     IN
     /\ r.n > 0 \/ r.eof
     /\ rRead' = rRead + r.n
     /\ IF rPc = "read"
          THEN IF r.eof
            THEN /\ rPc' = "done"
                 /\ UNCHANGED <<rBuffer, rLength, rQueue>>
            ELSE IF ~HeaderComplete(buf)
              THEN /\ rPc' = "poll"
                   /\ rBuffer' = buf
                   /\ UNCHANGED <<rLength, rQueue>>
              ELSE LET len == HeaderLength(buf) IN
                IF len = -1
                  THEN /\ rPc' = "poll"
                       /\ rBuffer' = <<>>
                       /\ UNCHANGED <<rLength, rQueue>>
                  ELSE IF Len(buf) < BodyStart(buf) + len
                    THEN /\ rPc' = "body"
                         /\ rBuffer' = buf
                         /\ rLength' = len
                         /\ UNCHANGED rQueue
                    ELSE /\ rPc' = "poll"
                         /\ rBuffer' = ExtractFrame(buf, len).buffer
                         /\ rQueue' = ExtractFrame(buf, len).queue
                         /\ UNCHANGED rLength
          ELSE IF ~r.eof /\ Len(buf) < BodyStart(buf) + rLength
            THEN /\ rPc' = "body"
                 /\ rBuffer' = buf
                 /\ UNCHANGED <<rLength, rQueue>>
            ELSE /\ rPc' = "poll"
                 /\ rBuffer' = ExtractFrame(buf, rLength).buffer
                 /\ rQueue' = ExtractFrame(buf, rLength).queue
                 /\ UNCHANGED rLength
  /\ UNCHANGED <<rFrames, rStream, rWritten, rProc>>
  /\ OnlyReader

NextReader ==
  \/ \E k \in 1..Len(rStream) : ChildWrite(k)
  \/ ReaderChildExit
  \/ ReaderPoll
  \/ ReaderRead

\* ------------------------------------------------------------ specifications
\* ------------------------------------------------------------------ close()
\* close() of MCPClient (client.py) and of StdioMCPClient (clients/stdio.py),
\* called on a client whose child runs, has exited, or (StdioMCPClient
\* before initialize()) was never spawned.

InitClose(cls, process, ignores) ==
  /\ kClass = cls
  /\ kProcess = process
  /\ kIgnoresTerm = ignores
  /\ kSignals = {}
  /\ kPc = "idle"
  /\ kElapsed = 0
  /\ kCloses = 0

\* No close() is modelled in the specifications that follow one client's
\* requests.
NoClose == InitClose("MCPClient", "running", FALSE)

\* `if self.process:`.  An MCPClient always has a Popen object.
CloseBegin ==
  /\ mode = "close"
  /\ kPc = "idle"
  /\ kCloses < MaxCloses
  /\ kCloses' = kCloses + 1
  /\ kElapsed' = 0
  /\ kPc' = IF kProcess = "none" THEN "idle" ELSE "terminate"
  /\ UNCHANGED <<kClass, kProcess, kIgnoresTerm, kSignals>>
  /\ OnlyClose

\* self.process.terminate().  On a child that has exited Popen.terminate
\* does nothing; the asyncio transport either does nothing or raises
\* ProcessLookupError, which the bare except of StdioMCPClient.close takes.
CloseTerminate ==
  /\ mode = "close"
  /\ kPc = "terminate"
  /\ kSignals' = IF kProcess = "running" THEN kSignals \cup {"TERM"}
                                         ELSE kSignals
  /\ \E raised \in BOOLEAN :
       /\ raised => (kClass = "StdioMCPClient" /\ kProcess = "exited")
       /\ kPc' = IF raised THEN "except" ELSE "wait"
  /\ UNCHANGED <<kClass, kProcess, kIgnoresTerm, kElapsed, kCloses>>
  /\ OnlyClose

\* self.process.wait() has returned: MCPClient.close waits without a
\* timeout, StdioMCPClient.close inside wait_for.
CloseWaitDone ==
  /\ mode = "close"
  /\ kPc = "wait"
  /\ kProcess = "exited"
  /\ kPc' = "idle"
  /\ UNCHANGED <<kClass, kProcess, kIgnoresTerm, kSignals, kElapsed, kCloses>>
  /\ OnlyClose

\* Whether the wait of close() is bounded: only StdioMCPClient.close wraps
\* it in asyncio.wait_for.
WaitIsBounded(cls) == cls = "StdioMCPClient"

\* asyncio.wait_for raises TimeoutError after the grace period.
CloseWaitTimeout ==
  /\ mode = "close"
  /\ kPc = "wait"
  /\ WaitIsBounded(kClass)
  /\ kElapsed >= CloseGrace
  /\ kPc' = "except"
  /\ UNCHANGED <<kClass, kProcess, kIgnoresTerm, kSignals, kElapsed, kCloses>>
  /\ OnlyClose

\* except: if self.process.returncode is None: self.process.kill()
CloseExcept ==
  /\ mode = "close"
  /\ kPc = "except"
  /\ IF kProcess = "running"
       THEN kSignals' = kSignals \cup {"KILL"} /\ kPc' = "killwait"
       ELSE kSignals' = kSignals /\ kPc' = "idle"
  /\ UNCHANGED <<kClass, kProcess, kIgnoresTerm, kElapsed, kCloses>>
  /\ OnlyClose

\* await self.process.wait() after the kill.
CloseKillWaitDone ==
  /\ mode = "close"
  /\ kPc = "killwait"
  /\ kProcess = "exited"
  /\ kPc' = "idle"
  /\ UNCHANGED <<kClass, kProcess, kIgnoresTerm, kSignals, kElapsed, kCloses>>
  /\ OnlyClose

\* A second passes while close() waits inside wait_for.
CloseTick ==
  /\ mode = "close"
  /\ kPc = "wait"
  /\ WaitIsBounded(kClass)
  /\ kElapsed < CloseGrace
  /\ kElapsed' = kElapsed + 1
  /\ UNCHANGED <<kClass, kProcess, kIgnoresTerm, kSignals, kPc, kCloses>>
  /\ OnlyClose

\* The child exits: on SIGTERM unless it ignores it, on SIGKILL always.
CloseChildExit ==
  /\ mode = "close"
  /\ kProcess = "running"
  /\ \/ "TERM" \in kSignals /\ ~kIgnoresTerm
     \/ "KILL" \in kSignals
  /\ kProcess' = "exited"
  /\ UNCHANGED <<kClass, kIgnoresTerm, kSignals, kPc, kElapsed, kCloses>>
  /\ OnlyClose



NextClose ==
  \/ CloseBegin \/ CloseTerminate \/ CloseWaitDone \/ CloseWaitTimeout
  \/ CloseExcept \/ CloseKillWaitDone \/ CloseTick \/ CloseChildExit

\* ------------------------------------------------------- ModularMCPChatbot
\* The orchestrator: load_mcps, call_mcp_tool, get_anthropic_tools, the
\* tool catalog of call_anthropic_with_tools, and the end of chat().  A
\* client is known by the position in servers.yaml of the entry it was
\* built from.

ServerNames == {"a", "b"}
ToolNames == {"t1", "t2"}

\* The settings of a backend: its type, how the backend behaves when it is
\* constructed and initialized ("ok", "down": no process or no connection,
\* "noanswer": the process starts and never answers), and the
\* ANTHROPIC_TOOLS of its config_module.  Type "null" is an entry with no
\* settings at all (`name:` and nothing under it).
ConfigEntries ==
  LET entry(n, t, e, tools) ==
        [name |-> n, settings |-> [type |-> t, env |-> e, tools |-> tools]]
  IN { entry("a", "stdio", "ok", <<"t1", "t2">>),
       entry("a", "stdio", "noanswer", <<"t1">>),
       entry("a", "fastmcp", "ok", <<"t2", "t1">>),
       entry("a", "null", "ok", <<>>),
       entry("b", "http", "ok", <<"t2">>),
       entry("b", "http", "down", <<"t1">>),
       entry("b", "api", "ok", <<>>),
       entry("b", "grpc", "ok", <<>>) }

ConfigFiles ==
  UNION {[1..n -> ConfigEntries] : n \in 0..MaxConfig}

NoCall ==
  [server |-> "", tool |-> "", kind |-> "none", raised |-> FALSE,
   text |-> <<>>, client |-> 0]

InitChat(orch, file) ==
  /\ orchestrator = orch
  /\ configFile = file
  /\ config = <<>>
  /\ cPc = "start"
  /\ cIdx = 0
  /\ mcps = <<>>
  /\ reports = <<>>
  /\ children = {}
  /\ closed = {}
  /\ lastCall = NoCall
  /\ erred = FALSE
  /\ requested = FALSE
  /\ catalog = <<>>
  /\ payloadTools = <<>>
  /\ turnDispatch = [use |-> "", calls |-> <<>>]

\* d[item.name] = item on a dict kept as the sequence of its items: a new
\* key goes to the end, a key the dict has keeps its place and takes the
\* new value.
DictSet(d, item) ==
  IF \E k \in 1..Len(d) : d[k].name = item.name
    THEN [k \in 1..Len(d) |-> IF d[k].name = item.name THEN item ELSE d[k]]
    ELSE Append(d, item)

\* yaml.safe_load of a mapping: the keys are set one after the other, a
\* repeated key is not an error.
RECURSIVE SafeLoadFrom(_, _, _)
SafeLoadFrom(file, i, d) ==
  IF i > Len(file) THEN d
  ELSE SafeLoadFrom(file, i + 1,
         DictSet(d, [name |-> file[i].name, settings |-> file[i].settings,
                     entry |-> i]))

SafeLoad(file) == SafeLoadFrom(file, 1, <<>>)

Names(d) == {d[k].name : k \in 1..Len(d)}

\* What constructing and initializing one backend comes to: whether the
\* loading of all backends is aborted, whether the backend is registered,
\* what is printed, whether a child process is left running.
LoadOutcome(orch, settings) ==
  LET out(ab, reg, rep, ch) ==
        [aborts |-> ab, registered |-> reg, report |-> rep, child |-> ch]
      t == settings.type
      ok == settings.env = "ok"
  IN
  IF t = "null" THEN out(TRUE, FALSE, "aborted", FALSE)
  ELSE IF t = "fastmcp"
    THEN IF ok THEN out(FALSE, TRUE, "connected", FALSE)
               ELSE out(FALSE, FALSE, "failed", FALSE)
  ELSE IF t = "http" THEN out(FALSE, TRUE, "connected", FALSE)
  ELSE IF orch = "core"
    THEN IF t = "stdio"
           THEN IF ok THEN out(FALSE, TRUE, "connected", TRUE)
                ELSE out(FALSE, FALSE, "failed", settings.env = "noanswer")
         ELSE IF t = "api" THEN out(FALSE, FALSE, "failed", FALSE)
         ELSE out(FALSE, FALSE, "unknowntype", FALSE)
    ELSE IF t = "api"
           THEN IF ok THEN out(FALSE, TRUE, "connected", FALSE)
                      ELSE out(FALSE, FALSE, "failed", FALSE)
         ELSE out(FALSE, FALSE, "ignored", FALSE)

\* load_mcps: open the file and yaml.safe_load it.
LoadMcps ==
  /\ mode = "chatbot"
  /\ cPc = "start"
  /\ config' = SafeLoad(configFile)
  /\ cPc' = "load"
  /\ cIdx' = 1
  /\ UNCHANGED <<orchestrator, configFile, mcps, reports, children, closed,
                 lastCall, erred, requested, catalog,
                 payloadTools, turnDispatch>>
  /\ OnlyChat

\* One turn of `for name, settings in config.items()`: _load_single_mcp.
\* An exception raised outside its try ends the loop in load_mcps.
LoadSingleMcp ==
  /\ mode = "chatbot"
  /\ cPc = "load"
  /\ cIdx <= Len(config)
  /\ LET e == config[cIdx]
         o == LoadOutcome(orchestrator, e.settings)
     IN /\ mcps' = IF o.registered
                     THEN DictSet(mcps, [name |-> e.name, client |-> e.entry,
                                         type |-> e.settings.type,
                                         tools |-> e.settings.tools])
                     ELSE mcps
        /\ reports' = Append(reports, [entry |-> e.entry, kind |-> o.report])
        /\ children' = IF o.child THEN children \cup {e.entry} ELSE children
        /\ cPc' = IF o.aborts THEN "chat" ELSE "load"
        /\ cIdx' = cIdx + 1
  /\ UNCHANGED <<orchestrator, configFile, config, closed, lastCall,
                 erred, requested, catalog,
                 payloadTools, turnDispatch>>
  /\ OnlyChat

\* The loop is over: load_mcps returns and chat() enters its loop.
LoadDone ==
  /\ mode = "chatbot"
  /\ cPc = "load"
  /\ cIdx > Len(config)
  /\ cPc' = "chat"
  /\ UNCHANGED <<orchestrator, configFile, config, cIdx, mcps, reports,
                 children, closed, lastCall, erred, requested, catalog,
                 payloadTools, turnDispatch>>
  /\ OnlyChat

\* `server not in self.mcps` is false.
IsRegisteredAlways(server, registry) == TRUE
IsRegistered(server, registry) == server \in Names(registry)

\* What a client's call_tool can do: return a result, or raise for a
\* timeout, an error response of the backend, or a tool the backend does
\* not know.  All three are raised as subclasses of Exception.
ToolOutcomes == {"ok", "timeout", "remoteerror", "unknowntool"}

\* `except Exception as e` takes the exception.
RouterCatchesNothing(outcome) == FALSE
RouterCatches(outcome) == outcome \in ToolOutcomes \ {"ok"}

\* call_mcp_tool(server, tool, params) with a client whose call_tool ends
\* as `outcome` says.  self.mcps[server] raises KeyError for a missing key.
CallMcpToolResult(registry, server, tool, outcome) ==
  LET res(kind, raised, text, client) ==
        [server |-> server, tool |-> tool, kind |-> kind, raised |-> raised,
         text |-> text, client |-> client]
  IN
  IF ~IsRegistered(server, registry)
    THEN res("unknownserver", FALSE, <<"Unknown server", server>>, 0)
  ELSE IF server \notin Names(registry)
    THEN res("KeyError", TRUE, <<>>, 0)
  ELSE LET info == CHOOSE info \in {registry[k] : k \in 1..Len(registry)} :
                     info.name = server
       IN IF outcome = "ok"
            THEN res("result", FALSE, <<"result", tool>>, info.client)
          ELSE IF RouterCatches(outcome)
            THEN res("error", FALSE,
                     <<"Error calling", server, tool, outcome>>, info.client)
          ELSE res(outcome, TRUE, <<>>, info.client)

\* The state after a call_mcp_tool that gave back r.
Dispatched(r) ==
  /\ lastCall' = r
  /\ erred' = (erred \/ lastCall.kind = "error")

\* call_mcp_tool, called with any server name.
CallMcpTool(server, tool, outcome) ==
  /\ mode = "chatbot"
  /\ cPc = "chat"
  /\ Dispatched(CallMcpToolResult(mcps, server, tool, outcome))
  /\ UNCHANGED <<orchestrator, configFile, config, cPc, cIdx, mcps, reports,
                 children, closed, requested, catalog, payloadTools,
                 turnDispatch>>
  /\ OnlyChat

\* tools.append(clean_tool)
AppendToolFirst(tools, clean_tool) == <<clean_tool>> \o tools
AppendTool(tools, clean_tool) == Append(tools, clean_tool)

\* `for tool in server_tools`: the clean copy of each definition, tagged
\* with "_server".  def stands for description and input_schema: it names
\* the client the definition is from.
RECURSIVE ExtendWithTools(_, _, _)
ExtendWithTools(tools, info, server_tools) ==
  IF server_tools = <<>> THEN tools
  ELSE ExtendWithTools(
         AppendTool(tools, [name |-> server_tools[1], def |-> info.client,
                            server |-> info.name]),
         info, Tail(server_tools))

RECURSIVE CollectTools(_, _)
CollectTools(tools, registry) ==
  IF registry = <<>> THEN tools
  ELSE CollectTools(ExtendWithTools(tools, registry[1], registry[1].tools),
                    Tail(registry))

\* get_anthropic_tools()
GetAnthropicTools(registry) == CollectTools(<<>>, registry)

\* clean_tools: every tool of the catalog with "_server" popped.
CleanTools(tools) ==
  [i \in 1..Len(tools) |-> [name |-> tools[i].name, def |-> tools[i].def]]

\* tool_server_mapping.get(tool_name): the mapping is filled in catalog
\* order, so the last tool of a name decides; "" stands for None.
ToolServerFirst(tools, tool_name) ==
  LET at == {i \in 1..Len(tools) : tools[i].name = tool_name}
  IN IF at = {} THEN ""
     ELSE tools[CHOOSE i \in at : \A j \in at : i <= j].server
ToolServer(tools, tool_name) ==
  LET at == {i \in 1..Len(tools) : tools[i].name = tool_name}
  IN IF at = {} THEN ""
     ELSE tools[CHOOSE i \in at : \A j \in at : j <= i].server

\* One request of call_anthropic_with_tools.  The LLM answers with text
\* only (use = "") or asks for the tool `use`.
ChatTurn(use, outcome) ==
  /\ mode = "chatbot"
  /\ cPc = "chat"
  /\ LET tools == GetAnthropicTools(mcps)
         server == ToolServer(tools, use)
     IN /\ requested' = TRUE
        /\ catalog' = tools
        /\ payloadTools' = CleanTools(tools)
        /\ IF use /= "" /\ server /= ""
             THEN /\ Dispatched(CallMcpToolResult(mcps, server, use, outcome))
                  /\ turnDispatch' =
                       [use |-> use,
                        calls |-> <<[server |-> lastCall'.server,
                                     client |-> lastCall'.client]>>]
             ELSE /\ UNCHANGED <<lastCall, erred>>
                  /\ turnDispatch' = [use |-> use, calls |-> <<>>]
  /\ UNCHANGED <<orchestrator, configFile, config, cPc, cIdx, mcps, reports,
                 children, closed>>
  /\ OnlyChat

\* `info["client"]` for the k-th item the clean-up loop iterates over; 0
\* when the expression raises.  src/chatbot.py unpacks `name, info`;
\* src/core/chatbot.py binds info to the (name, info) pair, and indexing a
\* tuple with a string raises TypeError, which the bare except swallows.
ItemClient(orch, registry, k) ==
  IF orch = "legacy" THEN registry[k].client ELSE 0

CleanupCloses(orch, registry) ==
  {ItemClient(orch, registry, k) : k \in 1..Len(registry)} \ {0}

\* The chat loop ends ("/quit", KeyboardInterrupt) and the finally clause
\* runs the clean-up.  A close() ends the child of a StdioMCPClient.
Shutdown ==
  /\ mode = "chatbot"
  /\ cPc = "chat"
  /\ closed' = closed \cup CleanupCloses(orchestrator, mcps)
  /\ children' = children \ closed'
  /\ cPc' = "done"
  /\ UNCHANGED <<orchestrator, configFile, config, cIdx, mcps, reports,
                 lastCall, erred, requested, catalog,
                 payloadTools, turnDispatch>>
  /\ OnlyChat

NextChat ==
  \/ LoadMcps \/ LoadSingleMcp \/ LoadDone
  \/ \E server \in ServerNames \cup {"zz"}, tool \in ToolNames,
        outcome \in ToolOutcomes : CallMcpTool(server, tool, outcome)
  \/ \E use \in ToolNames \cup {""}, outcome \in ToolOutcomes :
       ChatTurn(use, outcome)
  \/ Shutdown

\* ------------------------------------------- two backends, one event loop
\* A call to a StdioMCPClient (backend A) and a call to an HTTPMCPClient
\* (backend B) made by tasks of one asyncio event loop, one after the
\* other or at the same time.

InitLoop(server) ==
  /\ aPc = "idle"
  /\ aElapsed = 0
  /\ aLine = FALSE
  /\ aOutcome = "none"
  /\ bPc = "idle"
  /\ bElapsed = 0
  /\ bServer = server
  /\ bOutcome = "none"

\* Whether a task at this point keeps the event loop to itself.  The wait
\* for A's line is `await asyncio.wait_for(...)`: the task is suspended.
\* requests.post is a blocking call inside a coroutine: nothing else runs
\* until it returns.
ReadHoldsLoopToo(pc) == pc = "read"
ReadHoldsLoop(pc) == FALSE
PostHoldsLoop(pc) == pc = "posting"

LoopFree == ~ReadHoldsLoop(aPc) /\ ~PostHoldsLoop(bPc)

\* _send_request writes the request and starts to wait for a line.
ACallBegin ==
  /\ mode = "loop"
  /\ aPc = "idle"
  /\ LoopFree
  /\ aPc' = "read"
  /\ UNCHANGED <<aElapsed, aLine, aOutcome, bPc, bElapsed, bServer, bOutcome>>
  /\ OnlyLoop

\* A's child writes its response, in time or late.
AChildAnswers ==
  /\ mode = "loop"
  /\ aPc \in {"read", "done"}
  /\ ~aLine
  /\ aLine' = TRUE
  /\ UNCHANGED <<aPc, aElapsed, aOutcome, bPc, bElapsed, bServer, bOutcome>>
  /\ OnlyLoop

\* readline() has a line and the event loop resumes the task.
AReadLine ==
  /\ mode = "loop"
  /\ aPc = "read"
  /\ aLine
  /\ ~PostHoldsLoop(bPc)
  /\ aPc' = "done"
  /\ aOutcome' = "ok"
  /\ UNCHANGED <<aElapsed, aLine, bPc, bElapsed, bServer, bOutcome>>
  /\ OnlyLoop

\* wait_for times out and the event loop resumes the task.
AReadTimeout ==
  /\ mode = "loop"
  /\ aPc = "read"
  /\ aElapsed >= StdioTimeout
  /\ ~PostHoldsLoop(bPc)
  /\ aPc' = "done"
  /\ aOutcome' = "timeout"
  /\ UNCHANGED <<aElapsed, aLine, bPc, bElapsed, bServer, bOutcome>>
  /\ OnlyLoop

\* HTTPMCPClient.call enters requests.post.
BCallBegin ==
  /\ mode = "loop"
  /\ bPc = "idle"
  /\ LoopFree
  /\ bPc' = "posting"
  /\ UNCHANGED <<aPc, aElapsed, aLine, aOutcome, bElapsed, bServer, bOutcome>>
  /\ OnlyLoop

\* B's server answers the POST.
BPostReturns ==
  /\ mode = "loop"
  /\ bPc = "posting"
  /\ bServer = "ok"
  /\ bPc' = "done"
  /\ bOutcome' = "ok"
  /\ UNCHANGED <<aPc, aElapsed, aLine, aOutcome, bElapsed, bServer>>
  /\ OnlyLoop

\* The POST raises: the connection is refused, or nothing came in 10 s.
BPostFails ==
  /\ mode = "loop"
  /\ bPc = "posting"
  /\ \/ bServer = "down"
     \/ bServer = "silent" /\ bElapsed >= HttpTimeout
  /\ bPc' = "done"
  /\ bOutcome' = "error"
  /\ UNCHANGED <<aPc, aElapsed, aLine, aOutcome, bElapsed, bServer>>
  /\ OnlyLoop

\* A second passes for every call that waits.
LoopTick ==
  /\ mode = "loop"
  /\ \/ aPc = "read" /\ aElapsed < StdioTimeout
     \/ bPc = "posting" /\ bElapsed < HttpTimeout
  /\ aElapsed' = IF aPc = "read" THEN Min(aElapsed + 1, StdioTimeout)
                                 ELSE aElapsed
  /\ bElapsed' = IF bPc = "posting" THEN Min(bElapsed + 1, HttpTimeout)
                                    ELSE bElapsed
  /\ UNCHANGED <<aPc, aLine, aOutcome, bPc, bServer, bOutcome>>
  /\ OnlyLoop

NextLoop ==
  \/ ACallBegin \/ AChildAnswers \/ AReadLine \/ AReadTimeout
  \/ BCallBegin \/ BPostReturns \/ BPostFails \/ LoopTick

\* ------------------------------------------------------- _process_result
\* What a client makes of a tool result that carries a content list.  A
\* string is the sequence of its characters; Repr stands for the text of
\* str(x) or json.dumps(x) of something that is not a text.

Repr == <<"?">>

TextBlock(text) == [kind |-> "text", text |-> text]
DataBlock == [kind |-> "data", text |-> <<>>]
Blocks == {TextBlock(<<"a">>), TextBlock(<<"b">>), TextBlock(<<>>), DataBlock}
ContentLists == UNION {[1..n -> Blocks] : n \in 0..MaxBlocks}

InitNormalize(content) ==
  /\ nKind = "none"
  /\ nContent = content
  /\ nText = <<>>

\* "\n".join(parts)
RECURSIVE JoinLines(_)
JoinLines(parts) ==
  IF parts = <<>> THEN <<>>
  ELSE IF Len(parts) = 1 THEN parts[1]
  ELSE parts[1] \o <<LF>> \o JoinLines(Tail(parts))

\* StdioMCPClient._process_result
StdioPart(block) == IF block.kind = "text" THEN block.text ELSE Repr
StdioProcessResult(content) ==
  IF content /= <<>>
    THEN JoinLines([k \in 1..Len(content) |-> StdioPart(content[k])])
    ELSE Repr

\* HTTPMCPClient._process_result
FirstBlockOnly(content) ==
  IF content[1].kind = "text" THEN content[1].text ELSE Repr
HttpProcessResult(content) ==
  IF content /= <<>> THEN FirstBlockOnly(content) ELSE Repr

\* FastMCPClient._normalize_result: a block without a non-empty text goes
\* through json.dumps or str.
FastmcpPart(block) ==
  IF block.kind = "text" /\ block.text /= <<>> THEN block.text ELSE Repr
FastmcpNormalizeResult(content) ==
  IF content /= <<>>
    THEN JoinLines([k \in 1..Len(content) |-> FastmcpPart(content[k])])
    ELSE Repr

ProcessResult(kind, content) ==
  CASE kind = "stdio" -> StdioProcessResult(content)
    [] kind = "http" -> HttpProcessResult(content)
    [] kind = "fastmcp" -> FastmcpNormalizeResult(content)

\* call_tool of one client normalizes the result it got.
Normalize(kind) ==
  /\ mode = "normalize"
  /\ nKind' = kind
  /\ nText' = ProcessResult(kind, nContent)
  /\ UNCHANGED nContent
  /\ OnlyNorm

NextNormalize == \E kind \in {"stdio", "http", "fastmcp"} : Normalize(kind)

\* --------------------------------------------------- conversation history
\* chat() and the message list of call_anthropic_with_tools.  The content
\* of an entry is the number of its turn and what was said: the line the
\* user typed, or the kind of answer the turn ended with.

InitHistory(key) ==
  /\ apiKey = key
  /\ conversation_history = <<>>
  /\ messages = <<>>
  /\ sentAt = -1

Entry(role, turn, said) ==
  [role |-> role, content |-> [turn |-> turn, said |-> said]]

\* history[-k:]
FirstItems(history, k) == SubSeq(history, 1, Min(k, Len(history)))
LastItems(history, k) ==
  SubSeq(history, Len(history) - Min(k, Len(history)) + 1, Len(history))

\* messages = the entries of conversation_history[-MAX_CONVERSATION_HISTORY:]
\* and then the new user message.
BuildMessages(history, turn, message) ==
  Append(LastItems(history, MAX_CONVERSATION_HISTORY),
         Entry("user", turn, message))

Commands == {"", "/log", "/servers"}
Replies == {"text", "apierror", "neterror"}

\* One turn of the loop of chat(): a line is read; an empty line or a
\* command changes nothing; anything else goes to
\* call_anthropic_with_tools, which returns a string whatever happens, and
\* the line and that string are appended to the history.
HistoryTurn(user_input, reply) ==
  /\ mode = "history"
  /\ Len(conversation_history) < 2 * MaxTurns
  /\ IF user_input \in Commands
       THEN UNCHANGED <<conversation_history, messages, sentAt>>
       ELSE LET turn == Len(conversation_history) \div 2 + 1
            IN /\ IF apiKey
                    THEN /\ messages' =
                              BuildMessages(conversation_history, turn,
                                            user_input)
                         /\ sentAt' = Len(conversation_history)
                    ELSE UNCHANGED <<messages, sentAt>>
               /\ conversation_history' =
                    conversation_history
                      \o <<Entry("user", turn, user_input),
                           Entry("assistant", turn,
                                 IF apiKey THEN reply ELSE "nokey")>>
  /\ UNCHANGED apiKey
  /\ OnlyHist

NextHistory ==
  \E user_input \in Commands \cup {"hello"}, reply \in Replies :
    HistoryTurn(user_input, reply)

\* ------------------------------------- the tool_use blocks of a response
\* `for content in result["content"]` of call_anthropic_with_tools, one
\* block at a time.  A block is a text block or a tool_use block naming a
\* tool.

ResponseBlocks ==
  {[type |-> "text", name |-> ""], [type |-> "tool_use", name |-> "t1"],
   [type |-> "tool_use", name |-> "t2"]}
Responses == UNION {[1..n -> ResponseBlocks] : n \in 0..MaxResponse}

\* The mappings built from a catalog: both tools known, or t2 unknown.
Mappings ==
  {[t \in {"t1", "t2"} |-> IF t = "t1" THEN "a" ELSE "b"],
   [t \in {"t1", "t2"} |-> IF t = "t1" THEN "a" ELSE ""]}

InitTurn(mapping, blocks) ==
  /\ tool_server_mapping = mapping
  /\ tBlocks = blocks
  /\ tIdx = 1
  /\ tPc = "loop"
  /\ response_text = <<>>
  /\ tool_results = <<>>
  /\ tEvents = <<>>

\* tool_results.append(...)
AppendResultFirst(results, entry) == <<entry>> \o results
AppendResult(results, entry) == Append(results, entry)

\* content["type"] == "text": response_text += content["text"]
TurnText ==
  /\ mode = "turn"
  /\ tPc = "loop" /\ tIdx <= Len(tBlocks)
  /\ tBlocks[tIdx].type = "text"
  /\ response_text' = Append(response_text, tIdx)
  /\ tIdx' = tIdx + 1
  /\ UNCHANGED <<tool_server_mapping, tBlocks, tPc, tool_results, tEvents>>
  /\ OnlyTurn

\* A tool_use block whose tool is in the mapping: call_mcp_tool is awaited.
TurnToolStart ==
  /\ mode = "turn"
  /\ tPc = "loop" /\ tIdx <= Len(tBlocks)
  /\ tBlocks[tIdx].type = "tool_use"
  /\ tool_server_mapping[tBlocks[tIdx].name] /= ""
  /\ tPc' = "calling"
  /\ tEvents' = Append(tEvents, [what |-> "start", block |-> tIdx])
  /\ UNCHANGED <<tool_server_mapping, tBlocks, tIdx, response_text,
                 tool_results>>
  /\ OnlyTurn

\* call_mcp_tool returns its string: a result or an error text.
TurnToolReturn(outcome) ==
  /\ mode = "turn"
  /\ tPc = "calling"
  /\ tEvents' = Append(tEvents, [what |-> "return", block |-> tIdx])
  /\ tool_results' =
       AppendResult(tool_results,
                    [block |-> tIdx, name |-> tBlocks[tIdx].name,
                     kind |-> IF outcome = "ok" THEN "result" ELSE "error"])
  /\ tIdx' = tIdx + 1
  /\ tPc' = "loop"
  /\ UNCHANGED <<tool_server_mapping, tBlocks, response_text>>
  /\ OnlyTurn

\* A tool_use block whose tool is not in the mapping.
TurnToolNotFound ==
  /\ mode = "turn"
  /\ tPc = "loop" /\ tIdx <= Len(tBlocks)
  /\ tBlocks[tIdx].type = "tool_use"
  /\ tool_server_mapping[tBlocks[tIdx].name] = ""
  /\ tool_results' =
       AppendResult(tool_results,
                    [block |-> tIdx, name |-> tBlocks[tIdx].name,
                     kind |-> "notfound"])
  /\ tIdx' = tIdx + 1
  /\ UNCHANGED <<tool_server_mapping, tBlocks, tPc, response_text, tEvents>>
  /\ OnlyTurn

\* The loop is over: the text and the entries are joined and returned.
TurnEnd ==
  /\ mode = "turn"
  /\ tPc = "loop" /\ tIdx > Len(tBlocks)
  /\ tPc' = "done"
  /\ UNCHANGED <<tool_server_mapping, tBlocks, tIdx, response_text,
                 tool_results, tEvents>>
  /\ OnlyTurn

NextTurn ==
  \/ TurnText \/ TurnToolStart \/ TurnToolNotFound \/ TurnEnd
  \/ \E outcome \in {"ok", "timeout", "unknowntool"} : TurnToolReturn(outcome)

\* ------------------------------------------------- requests on the wire
\* The characters _send_message and _send_request write for a request.
\* json.dumps escapes every non-ASCII character, so a character is a byte.

Methods ==
  {<<"i", "n", "i", "t", "i", "a", "l", "i", "z", "e">>,
   <<"t", "o", "o", "l", "s", "/", "l", "i", "s", "t">>,
   <<"t", "o", "o", "l", "s", "/", "c", "a", "l", "l">>,
   <<"p", "i", "n", "g">>}

\* json.dumps of the request ("jsonrpc" and "params" are left out here)
JsonDumps(request) ==
  <<"{", "\"", "i", "d", "\"", ":", " ">> \o Decimal(request.id)
    \o <<",", " ", "\"", "m", "e", "t", "h", "o", "d", "\"", ":", " ", "\"">> \o request.method \o <<"\"", "}">>

InitWire(request) ==
  /\ wKind = "none"
  /\ wRequest = request
  /\ wBytes = <<>>

\* StdioMCPClient._send_request: json.dumps(request) + "\n"
RequestLine(request) == JsonDumps(request) \o <<LF>>

\* What the client writes for the request.
Written(kind, request) ==
  IF kind = "MCPClient" THEN EncodeFrame(JsonDumps(request))
  ELSE RequestLine(request)

Write(kind) ==
  /\ mode = "wire"
  /\ wKind' = kind
  /\ wBytes' = Written(kind, wRequest)
  /\ UNCHANGED wRequest
  /\ OnlyWire

NextWire == \E kind \in {"MCPClient", "StdioMCPClient"} : Write(kind)

\* ------------------------------------------------- the bundled servers
\* The main loops of src/mymcpserver/main.py and other.py, one request
\* frame at a time.  A frame is well formed: a Content-Length header with
\* the byte length of the body, a blank line, the body, which is a JSON
\* object with an id.  `wide` is the number of bytes of the body beyond its
\* number of characters (a body with non-ASCII characters in UTF-8).
\* `tool` says how a tools/call goes: "ok"; "badargs", the call of the tool
\* function raises; "enginefails", the playlist engine raises inside the
\* tool function; "unknown", no such tool.

RequestKinds ==
  LET req(m, t, w) == [method |-> m, tool |-> t, wide |-> w]
  IN {req("initialize", "", 0), req("nosuch", "", 0),
      req("tools/call", "ok", 0), req("tools/call", "ok", 1),
      req("tools/call", "badargs", 0), req("tools/call", "enginefails", 0),
      req("tools/call", "unknown", 0)}

\* The frames of a stream have the ids 1, 2, ...
RequestStreams ==
  UNION {{[k \in 1..n |-> [id |-> k, method |-> f[k].method,
                           tool |-> f[k].tool, wide |-> f[k].wide]] :
            f \in [1..n -> RequestKinds]} : n \in 0..MaxRequests}

InitServer(server, stream) ==
  /\ vServer = server
  /\ vStream = stream
  /\ vSynced = TRUE
  /\ vLog = <<>>

NoResponse == [id |-> 0, kind |-> "none"]

\* handle_request and what the main loop makes of it.  Every tool function
\* catches what the engine raises and returns an "Error ..." text, which
\* is sent as a result.
HandleRequest(request) ==
  LET result == [id |-> request.id, kind |-> "result"]
      error == [id |-> request.id, kind |-> "error"]
  IN IF request.method = "initialize" THEN result
     ELSE IF request.method = "tools/call"
       THEN IF request.tool \in {"ok", "enginefails"} THEN result ELSE error
     ELSE error

\* The body is read as Content-Length characters of the decoded text.  With
\* more bytes than characters the read runs into the next frame: main.py
\* answers the JSONDecodeError with an error whose id is null (0 here),
\* other.py only logs it.
OverRead(server) ==
  IF server = "main" THEN [id |-> 0, kind |-> "error"] ELSE NoResponse

\* One turn of the main loop.  A read that runs past the end of what was
\* sent blocks.  Once a read ran into a frame, no later header is at the
\* start of a line, and the frames go by unanswered.
Serve ==
  /\ mode = "server"
  /\ vStream /= <<>>
  /\ LET request == Head(vStream)
     IN /\ ~(vSynced /\ request.wide > 0 /\ Len(vStream) = 1)
        /\ vLog' = Append(vLog,
             [request |-> request,
              response |-> IF ~vSynced THEN NoResponse
                           ELSE IF request.wide > 0 THEN OverRead(vServer)
                           ELSE HandleRequest(request)])
        /\ vSynced' = (vSynced /\ request.wide = 0)
  /\ vStream' = Tail(vStream)
  /\ UNCHANGED vServer
  /\ OnlyServer

NextServer == Serve

\* ----------------------------------------------------------- specifications

\* The host is at rest while a behaviour follows one client's requests.
NoTurn == InitTurn([t \in {"t1", "t2"} |-> ""], <<>>)

NoWrite == InitWire([id |-> 1, method |-> <<>>])

NoServer == InitServer("main", <<>>)

InitPartsIdle ==
  /\ InitNormalize(<<>>) /\ InitHistory(TRUE) /\ NoTurn /\ NoWrite
  /\ NoServer

InitHostIdle ==
  NoClose /\ InitChat("core", <<>>) /\ InitLoop("ok") /\ InitPartsIdle

Init ==
  /\ mode \in {"MCPClient", "StdioMCPClient", "HTTPMCPClient"}
  /\ InitClient({1})
  /\ InitStdio
  /\ InitHttp
  /\ InitReader(<<>>)
  /\ InitHostIdle

Next == NextClient \/ NextStdio \/ NextHttp

Spec == Init /\ [][Next]_vars

\* The reader thread of an MCPClient and the child whose stdout it reads.
InitOfReader ==
  /\ mode = "reader"
  /\ InitClient({1})
  /\ InitStdio
  /\ InitHttp
  /\ \E frames \in FrameLists : InitReader(frames)
  /\ InitHostIdle

SpecReader == InitOfReader /\ [][NextReader]_vars

\* Time passes and no waiter is held back for ever: what the wall clock and
\* the schedulers of the threads and of the event loop guarantee.
SpecFair ==
  /\ Init
  /\ [][Next]_vars
  /\ WF_vars(Tick)
  /\ WF_vars(StdioTick)
  /\ \A t \in {1} :
       WF_vars(LoopCheck(t) \/ GetItem(t) \/ GetEmpty(t) \/ CheckResponse(t))
  /\ WF_vars(StdioReadLine \/ StdioReadEof \/ StdioReadTimeout)

\* The clients are at rest while a behaviour follows the host.
InitClientsIdle ==
  /\ InitClient({1})
  /\ InitStdio
  /\ InitHttp
  /\ InitReader(<<>>)

\* close() called on a client.  The caller's thread or coroutine keeps
\* running, the clock advances, and a child that a signal ends does exit.
InitOfClose ==
  /\ mode = "close"
  /\ InitClientsIdle
  /\ InitChat("core", <<>>)
  /\ InitLoop("ok")
  /\ InitPartsIdle
  /\ \E cls \in {"MCPClient", "StdioMCPClient"},
        process \in {"none", "running", "exited"}, ignores \in BOOLEAN :
       /\ process = "none" => cls = "StdioMCPClient"
       /\ InitClose(cls, process, ignores)

SpecClose ==
  /\ InitOfClose
  /\ [][NextClose]_vars
  /\ WF_vars(NextClose)

\* The orchestrator, from a servers.yaml to the end of chat().
InitOfChat ==
  /\ mode = "chatbot"
  /\ InitClientsIdle
  /\ NoClose
  /\ InitLoop("ok")
  /\ InitPartsIdle
  /\ \E orch \in {"core", "legacy"}, file \in ConfigFiles :
       InitChat(orch, file)

SpecChat == InitOfChat /\ [][NextChat]_vars

\* The two calls on one event loop.  The loop keeps running its tasks, the
\* clock advances, and a server that answers does answer.
InitOfLoop ==
  /\ mode = "loop"
  /\ InitClientsIdle
  /\ NoClose
  /\ InitChat("core", <<>>)
  /\ InitPartsIdle
  /\ \E server \in {"ok", "down", "silent"} : InitLoop(server)

SpecLoop ==
  /\ InitOfLoop
  /\ [][NextLoop]_vars
  /\ WF_vars(ACallBegin \/ AReadLine \/ AReadTimeout)
  /\ WF_vars(BCallBegin \/ BPostReturns \/ BPostFails)
  /\ WF_vars(LoopTick)

\* The normalization of one tool result by each kind of client.
InitOfNormalize ==
  /\ mode = "normalize"
  /\ InitClientsIdle
  /\ NoClose
  /\ InitChat("core", <<>>)
  /\ InitLoop("ok")
  /\ InitHistory(TRUE)
  /\ NoTurn
  /\ NoWrite
  /\ NoServer
  /\ \E content \in ContentLists : InitNormalize(content)

SpecNormalize == InitOfNormalize /\ [][NextNormalize]_vars

\* The turns of one conversation.
InitOfHistory ==
  /\ mode = "history"
  /\ InitClientsIdle
  /\ NoClose
  /\ InitChat("core", <<>>)
  /\ InitLoop("ok")
  /\ InitNormalize(<<>>)
  /\ NoTurn
  /\ NoWrite
  /\ NoServer
  /\ \E key \in BOOLEAN : InitHistory(key)

SpecHistory == InitOfHistory /\ [][NextHistory]_vars

\* The handling of one response of the LLM.
InitOfTurn ==
  /\ mode = "turn"
  /\ InitClientsIdle
  /\ NoClose
  /\ InitChat("core", <<>>)
  /\ InitLoop("ok")
  /\ InitNormalize(<<>>)
  /\ InitHistory(TRUE)
  /\ NoWrite
  /\ NoServer
  /\ \E mapping \in Mappings, blocks \in Responses : InitTurn(mapping, blocks)

SpecTurn == InitOfTurn /\ [][NextTurn]_vars

\* One request written by each kind of process-backend client.
InitOfWire ==
  /\ mode = "wire"
  /\ InitClientsIdle
  /\ NoClose
  /\ InitChat("core", <<>>)
  /\ InitLoop("ok")
  /\ InitNormalize(<<>>)
  /\ InitHistory(TRUE)
  /\ NoTurn
  /\ NoServer
  /\ \E id \in 1..MaxWireId, method \in Methods :
       InitWire([id |-> id, method |-> method])

SpecWire == InitOfWire /\ [][NextWire]_vars

\* A bundled server and the request frames a client sends it.
InitOfServer ==
  /\ mode = "server"
  /\ InitClientsIdle
  /\ NoClose
  /\ InitChat("core", <<>>)
  /\ InitLoop("ok")
  /\ InitNormalize(<<>>)
  /\ InitHistory(TRUE)
  /\ NoTurn
  /\ NoWrite
  /\ \E server \in {"main", "other"}, stream \in RequestStreams :
       InitServer(server, stream)

SpecServer == InitOfServer /\ [][NextServer]_vars

\* Two threads that each make one call() on the same MCPClient, whose
\* constructor has returned and whose child is running: the interleavings
\* of the two callers and the reader within the first second of each wait.
InitOfRace ==
  /\ mode = "MCPClient"
  /\ threads = {1, 2}
  /\ proc = "running"
  /\ stderrText = ""
  /\ id_ = 0
  /\ initialized = FALSE
  /\ response_queue = <<>>
  /\ childInbox = {}
  /\ th = [t \in {1, 2} |-> IdleThread]
  /\ constructed = TRUE
  /\ sentLog = <<>>
  /\ received = {}
  /\ returnedLog = {}
  /\ requeued = {}
  /\ timedOut = {}
  /\ InitStdio
  /\ InitHttp
  /\ InitReader(<<>>)
  /\ InitHostIdle

\* The one call() of thread t.
RaceCallBegin(t) ==
  /\ th[t].outcome = NoOutcome
  /\ CallBegin(t)

NextRace ==
  \/ \E t \in threads :
       \/ RaceCallBegin(t)
       \/ IncLoad(t) \/ IncStore(t) \/ BuildMessage(t) \/ SendMessage(t)
       \/ WaitCall(t) \/ LoopCheck(t) \/ GetItem(t) \/ CheckResponse(t)
  \/ \E req \in childInbox, err \in BOOLEAN : ReaderPut(req, err)

SpecRace == InitOfRace /\ [][NextRace]_vars

\* ------------------------------------------------------------------- claims

StrictlyIncreasing(log) ==
  \A i \in 1..Len(log), j \in 1..Len(log) : i < j => log[i] < log[j]

QueuedN == {response_queue[i].n : i \in 1..Len(response_queue)}
HeldN == {th[t].held.n : t \in {u \in threads : th[u].pc = "check"}}
ReturnedN == {r.n : r \in returnedLog}

\* C1: whatever a process-backend client hands back to the caller of a
\* request (a result or an error) comes from a response whose id is the id
\* of that request: MCPClient.call and StdioMCPClient._send_request alike.
C1_ResponseMatchesRequest ==
  /\ \A r \in returnedLog : r.got = r.sent
  /\ \A r \in sReturned : r.got = r.sent

\* C2: a wait for a response ends in one of two ways only: with the response
\* whose id is the request's, or, when no such response came, with an error
\* (the timeout error; the end-of-file error that readline gives at once
\* when the child has exited is counted with it here).
C2_WaitEndsMatchedOrTimedOut ==
  /\ \A t \in threads :
       th[t].outcome.kind \in {"ok", "methoderror"} =>
         \E r \in returnedLog : r.got = th[t].outcome.resp /\ r.got = r.sent
  /\ co.outcome.kind \in {"ok", "servererror", "timeout", "noresponse"} =>
       \/ co.outcome.kind \in {"ok", "servererror"}
            /\ co.outcome.resp = co.outcome.req
       \/ co.outcome.kind \in {"timeout", "noresponse"}

\* The part of C2 that the code keeps: every wait comes to an end, also with
\* a queue that holds only responses for other ids and with a child that has
\* exited (checked under SpecFair).
WaitsTerminate ==
  /\ \A t \in {1} :
       (th[t].pc \in {"loop", "get", "check"})
         ~> (th[t].pc \notin {"loop", "get", "check"})
  /\ (co.pc = "read") ~> (co.pc /= "read")

\* C3: a waiter never drops a response that is not its own.  Every response
\* the reader has put on the queue is in the queue, or in the hands of a
\* waiter that is looking at it, or has been returned to a wait for its own
\* id; a waiter that is not looking at a response holds none; and a waiter
\* that takes the response with the id it waits for returns it.
C3_Retained ==
  /\ received = QueuedN \cup HeldN \cup ReturnedN
  /\ Cardinality(QueuedN) = Len(response_queue)
  /\ QueuedN \cap ReturnedN = {}
  /\ \A t \in threads : th[t].pc /= "check" => th[t].held = NoResp
  /\ \A r \in returnedLog : r.got = r.waited

C3_OwnerGetsIt ==
  \A t \in threads :
    (th[t].pc = "check" /\ th[t].held.id = th[t].waitId
       /\ th'[t].pc /= "check")
      => th[t].held.n \in {r.n : r \in returnedLog'}

C3_MismatchedResponsesRetained == []C3_Retained /\ [][C3_OwnerGetsIt]_vars

\* A call has returned its result after its waiter put back a response for
\* another id, and that response is still in the queue.
C3_Witness ==
  /\ mode = "MCPClient"
  /\ \E t \in threads : th[t].pc = "idle" /\ th[t].outcome.kind = "ok"
  /\ requeued /= {}
  /\ requeued \cap QueuedN /= {}

\* C4: the response to a request that has timed out is discarded when it
\* arrives later: no later request gets it, and no waiter that sees it keeps
\* it among the pending responses.
C4_LateResponseDiscarded ==
  /\ \A r \in sReturned : r.got \notin sTimedOut
  /\ \A r \in returnedLog : r.got \notin timedOut
  /\ \A i \in 1..Len(response_queue) :
       ~(response_queue[i].id \in timedOut /\ response_queue[i].n \in requeued)

\* C5: within one client the ids of the requests sent are strictly
\* increasing in send order, and no two requests outstanding at the child at
\* the same time carry the same id.
C5_RequestIdsIncrease ==
  /\ StrictlyIncreasing(sentLog)
  /\ StrictlyIncreasing(sSentLog)
  /\ StrictlyIncreasing(hSentLog)
  /\ \A a \in childInbox, b \in childInbox : a.id = b.id => a = b

\* Two requests are outstanding at the child of a StdioMCPClient at once.
C5_Witness ==
  /\ mode = "StdioMCPClient"
  /\ Cardinality(sInbox) >= 2
  /\ Len(sSentLog) >= 3

FrameKindsOf(frames) == {frames[i].kind : i \in 1..Len(frames)}

\* The messages of the well-formed frames, in stream order.
RECURSIVE GoodMessages(_)
GoodMessages(frames) ==
  IF frames = <<>> THEN <<>>
  ELSE IF frames[1].kind = "good"
    THEN <<frames[1].id>> \o GoodMessages(Tail(frames))
    ELSE GoodMessages(Tail(frames))

\* The reader has consumed every byte of the child's output.
StreamConsumed ==
  /\ mode = "reader"
  /\ rFrames /= <<>>
  /\ rRead = Len(rStream)
  /\ rPc /= "body"

\* C6: of a stream of frames framed as _send_message frames them, the reader
\* puts exactly the messages on the queue, once each and in stream order.
C6_FramesDecodedInOrder ==
  (StreamConsumed /\ FrameKindsOf(rFrames) = {"good"})
    => rQueue = GoodMessages(rFrames)

\* C7: a frame with a valid header and a body that is not JSON puts nothing
\* on the queue and does not stop the reader: the well-formed frame after it
\* is decoded and put on the queue.
C7_BadJsonSkipped ==
  (StreamConsumed /\ FrameKindsOf(rFrames) = {"good", "badjson"})
    => rQueue = GoodMessages(rFrames)

\* C8: after a frame with a malformed header or an unparsable Content-Length
\* the reader resynchronizes: the well-formed frames that follow are decoded
\* and put on the queue.
C8_ReaderResynchronizes ==
  (/\ StreamConsumed
   /\ "good" \in FrameKindsOf(rFrames)
   /\ FrameKindsOf(rFrames) \cap {"badlength", "nokey"} /= {}
   /\ FrameKindsOf(rFrames) \subseteq {"good", "badlength", "nokey"})
    => rQueue = GoodMessages(rFrames)

\* C9: initialize() on a client that is already initialized changes nothing
\* and reports success: no request, no request id, no further child process.
C9_InitializeIsNoOp ==
  /\ (initialized /\ \E t \in threads : InitializeBegin(t))
       => UNCHANGED <<id_, sentLog, proc, childInbox, response_queue,
                      initialized>>
  /\ (sReady /\ StdioInitializeBegin)
       => /\ UNCHANGED <<sSpawned, sRunning, next_id, sSentLog>>
          /\ co'.outcome.kind = "ok"

C9_InitializeIdempotent == [][C9_InitializeIsNoOp]_vars

\* C10: when the child exits before the handshake has completed, starting
\* the client fails with a process-died error that carries the text of the
\* child's standard error.
C10_ProcessDiedCarriesStderr ==
  /\ \A t \in threads :
       (th[t].pc = "failed" /\ proc = "exited") =>
         /\ th[t].outcome.kind = "processdied"
         /\ th[t].outcome.text = stderrText
  /\ (co.outcome.op = "initialize" /\ co.outcome.died) =>
       /\ co.outcome.kind = "processdied"
       /\ co.outcome.text = sStderr

\* C11: close() on a process-backend client always returns, also when the
\* child ignores the termination request: a close() that has begun comes to
\* its end.
C11_CloseReturns == (kPc /= "idle") ~> (kPc = "idle")

\* The clients that self.mcps holds.
RegisteredClients == {mcps[k].client : k \in 1..Len(mcps)}

\* C12: when the orchestrator has shut down, close() has been invoked on the
\* client of every registered backend.
C12_ShutdownClosesAll == cPc = "done" => RegisteredClients \subseteq closed

\* C13: a handshake that fails leaks no connection: a child process that is
\* running belongs to a client that is registered, which is the only owner
\* that the clean-up will close.
C13_NoOrphanChild == children \subseteq RegisteredClients

\* C15: call_mcp_tool for a server name that is not registered gives back
\* the unknown-server error and does no I/O: it raises nothing, invokes no
\* client's call_tool and leaves the registry and the child processes as
\* they are.
C15_UnknownServerAnswer ==
  (lastCall.kind /= "none" /\ lastCall.server \notin Names(mcps)) =>
    /\ lastCall.kind = "unknownserver"
    /\ ~lastCall.raised
    /\ lastCall.client = 0
    /\ lastCall.text = <<"Unknown server", lastCall.server>>

C15_UnknownServerStep ==
  (lastCall' /= lastCall /\ lastCall'.server \notin Names(mcps)) =>
    UNCHANGED <<mcps, children, closed, reports>>

C15_UnknownServerNoIO ==
  []C15_UnknownServerAnswer /\ [][C15_UnknownServerStep]_vars

\* A call for an unregistered server has been answered while a backend is
\* registered.
C15_Witness ==
  /\ lastCall.kind = "unknownserver"
  /\ lastCall.server = "zz"
  /\ Len(mcps) >= 1

\* C16: call_mcp_tool for a registered server never raises: the call goes to
\* that server's client, a failure of call_tool comes back as an error string
\* that names the server and the tool, the backend stays registered, and
\* calls after a failure are dispatched all the same.
C16_RegisteredAnswer ==
  (lastCall.kind /= "none" /\ lastCall.server \in Names(mcps)) =>
    /\ ~lastCall.raised
    /\ \E k \in 1..Len(mcps) :
         mcps[k].name = lastCall.server /\ mcps[k].client = lastCall.client
    /\ lastCall.kind \in {"result", "error"}
    /\ lastCall.kind = "error" =>
         /\ lastCall.text[1] = "Error calling"
         /\ lastCall.text[2] = lastCall.server
         /\ lastCall.text[3] = lastCall.tool

C16_StaysRegistered == (cPc = "chat" /\ cPc' = "chat") => mcps' = mcps

C16_RouterNeverRaises ==
  []C16_RegisteredAnswer /\ [][C16_StaysRegistered]_vars

\* After a call that came back as an error string, a later call has been
\* dispatched and has returned its result.
C16_Witness ==
  /\ erred
  /\ lastCall.kind = "result"
  /\ lastCall.client /= 0

\* The client of these settings can be constructed and its initialize()
\* returns: a stdio or fastmcp client whose backend answers the handshake,
\* and every http client, whose initialize() never raises.
BackendWorks(settings) ==
  \/ settings.type \in {"stdio", "fastmcp"} /\ settings.env = "ok"
  \/ settings.type = "http"

\* C17: after load_mcps every configured backend has been attempted, in
\* configuration order; the registry holds exactly the backends whose
\* construction and initialize succeeded; the failure of each of the others
\* has been reported.
C17_PartialLoad ==
  (orchestrator = "core" /\ cPc \in {"chat", "done"}) =>
    /\ Len(reports) = Len(config)
    /\ \A k \in 1..Len(config) :
         /\ reports[k].entry = config[k].entry
         /\ config[k].name \in Names(mcps) <=> BackendWorks(config[k].settings)
         /\ ~BackendWorks(config[k].settings) =>
              reports[k].kind \in {"failed", "unknowntype", "aborted"}

\* C18: when servers.yaml configures two backends under one name, the
\* registration of the second is refused with a duplicate-server error and
\* the registration of the first stays as it was.
C18_DuplicateRefused ==
  (orchestrator = "core" /\ cPc \in {"chat", "done"}) =>
    \A i \in 1..Len(configFile), j \in 1..Len(configFile) :
      (i < j /\ configFile[i].name = configFile[j].name) =>
        /\ \E k \in 1..Len(reports) :
             reports[k].entry = j /\ reports[k].kind = "duplicate"
        /\ BackendWorks(configFile[i].settings) =>
             \E k \in 1..Len(mcps) :
               mcps[k].name = configFile[i].name /\ mcps[k].client = i

\* The tools of the catalog that are tagged with this server, in order.
RECURSIVE NamesTagged(_, _)
NamesTagged(tools, server) ==
  IF tools = <<>> THEN <<>>
  ELSE IF tools[1].server = server
    THEN <<tools[1].name>> \o NamesTagged(Tail(tools), server)
    ELSE NamesTagged(Tail(tools), server)

\* The place of a server in the order of registration.
RegistrationIndex(server) ==
  CHOOSE k \in 1..Len(mcps) : mcps[k].name = server

\* C19: what get_anthropic_tools returned is the concatenation of the tool
\* definitions of the registered clients: every entry is tagged with a
\* registered server and carries that server's own definition, the entries of
\* one server are that server's tools in its own order, and the servers
\* follow one another in registration order.
C19_CatalogIsConcatenation ==
  (requested /\ cPc = "chat") =>
    /\ \A i \in 1..Len(catalog) :
         \E k \in 1..Len(mcps) :
           mcps[k].name = catalog[i].server /\ mcps[k].client = catalog[i].def
    /\ \A k \in 1..Len(mcps) :
         NamesTagged(catalog, mcps[k].name) = mcps[k].tools
    /\ \A i \in 1..Len(catalog), j \in 1..Len(catalog) :
         i < j => RegistrationIndex(catalog[i].server)
                    <= RegistrationIndex(catalog[j].server)

\* The catalog of two registered servers that advertise three tools or more.
C19_Witness ==
  /\ requested
  /\ Len(mcps) = 2
  /\ Len(catalog) >= 3

\* C20: the tools presented to the LLM in a request hold no name twice; of
\* the backends that advertise a name, the entry presented is the one of the
\* backend registered last.
C20_PayloadNamesUnique ==
  requested =>
    /\ \A i \in 1..Len(payloadTools), j \in 1..Len(payloadTools) :
         payloadTools[i].name = payloadTools[j].name => i = j
    /\ \A i \in 1..Len(payloadTools) :
         \A k \in 1..Len(mcps) :
           (\E t \in 1..Len(mcps[k].tools) :
              mcps[k].tools[t] = payloadTools[i].name)
             => \E o \in k..Len(mcps) : mcps[o].client = payloadTools[i].def

\* C14: a call that waits on backend A never keeps a call on backend B from
\* completing.  While A's call waits for its line, B's call can start and
\* its POST can return; B's call succeeds exactly when B's server answers,
\* whatever A's call is doing; A's call, when it ends without a line from the
\* child, ends with the timeout error; and both calls come to an end.
C14_BNotHeldByA ==
  /\ (bPc = "idle" /\ aPc = "read") => ENABLED BCallBegin
  /\ (bPc = "posting" /\ bServer = "ok") => ENABLED BPostReturns
  /\ bPc = "done" => (bOutcome = "ok" <=> bServer = "ok")
  /\ aPc = "done" => /\ aOutcome \in {"ok", "timeout"}
                     /\ aOutcome = "ok" => aLine

C14_NoBlockingAcrossBackends ==
  /\ []C14_BNotHeldByA
  /\ (bPc = "posting") ~> (bPc = "done")
  /\ (aPc = "read") ~> (aPc = "done")

\* The call to A has timed out and the call to B, to a server that answers,
\* has succeeded although A's child never wrote a line.
C14_Witness ==
  /\ mode = "loop"
  /\ aPc = "done" /\ aOutcome = "timeout" /\ ~aLine
  /\ bPc = "done" /\ bOutcome = "ok"

\* C21: HTTPMCPClient.initialize never fails.  Every initialize() returns;
\* when its tools/list call failed (transport error, HTTP status, JSON-RPC
\* error) it returns self._tools as it was before the call, and leaves it so.
C21_InitializeReturned == hInit.kind \in {"none", "returned"}

C21_FailedListKeepsTools ==
  (hSentLog' /= hSentLog /\ hOutcome'.kind /= "ok")
    => /\ hTools' = hTools
       /\ hInit'.kind = "returned" => hInit'.tools = hTools

C21_ReturnsItsTools ==
  hInit.kind = "returned" => hInit.tools = hTools

C21_InitializeNeverFails ==
  /\ [](C21_InitializeReturned /\ C21_ReturnsItsTools)
  /\ [][C21_FailedListKeepsTools]_vars

\* An initialize() whose tools/list failed has returned a configured list
\* that is not empty.
C21_Witness ==
  /\ mode = "HTTPMCPClient"
  /\ hInit.kind = "returned"
  /\ hOutcome.kind \in {"transporterror", "httperror", "remoteerror"}
  /\ hInit.tools = <<"t2", "t1">>
  /\ Len(hSentLog) = 1

\* C22: for a content list of text blocks the normalized text is the text
\* of every block, in list order, joined by newlines, whichever client
\* normalized it.
C22_AllTextsJoined ==
  (/\ nKind /= "none"
   /\ nContent /= <<>>
   /\ \A k \in 1..Len(nContent) :
        nContent[k].kind = "text" /\ nContent[k].text /= <<>>)
  => nText = JoinLines([k \in 1..Len(nContent) |-> nContent[k].text])

\* C23: the conversation history only grows at its end and is never
\* truncated; the message list sent to the LLM for a turn is the last K
\* entries the history had before the turn, in their order, followed by
\* the new user message (K = MAX_CONVERSATION_HISTORY).
C23_AppendOnly ==
  /\ Len(conversation_history') >= Len(conversation_history)
  /\ SubSeq(conversation_history', 1, Len(conversation_history))
       = conversation_history

C23_WindowOf(before, sent) ==
  LET n == Len(before)
      k == IF n < MAX_CONVERSATION_HISTORY THEN n ELSE MAX_CONVERSATION_HISTORY
  IN /\ Len(sent) = k + 1
     /\ \A i \in 1..k : sent[i] = before[n - k + i]
     /\ sent[k + 1].role = "user"
     /\ sent[k + 1].content.turn = n \div 2 + 1

C23_WindowIsLastK ==
  sentAt >= 0 =>
    C23_WindowOf(SubSeq(conversation_history, 1, sentAt), messages)

C23_HistoryAndWindow == []C23_WindowIsLastK /\ [][C23_AppendOnly]_vars

\* A request was built from a history longer than K: entries were left out
\* of the request and are still in the history.
C23_Witness ==
  /\ mode = "history"
  /\ sentAt > MAX_CONVERSATION_HISTORY
  /\ Len(conversation_history) = sentAt + 2
  /\ Len(messages) = MAX_CONVERSATION_HISTORY + 1

\* C30: the message list sent to the LLM starts with a user message,
\* alternates user and assistant, and ends with the new user message.
C30_RolesAlternate ==
  sentAt >= 0 =>
    /\ messages[1].role = "user"
    /\ \A i \in 1..(Len(messages) - 1) : messages[i].role /= messages[i + 1].role
    /\ messages[Len(messages)].role = "user"

\* C24: the tool_use blocks of a response are dispatched one at a time in
\* block order: a call starts only when every earlier call has returned,
\* and when the loop is over there is exactly one tool-result entry for
\* each tool_use block, in block order, whether the call succeeded, failed
\* or the tool is unknown.
ToolUseBlocks(upto) ==
  {i \in 1..Len(tBlocks) : i < upto /\ tBlocks[i].type = "tool_use"}

C24_OneAtATime ==
  \A k \in 1..Len(tEvents) :
    /\ tEvents[k].what = (IF k % 2 = 1 THEN "start" ELSE "return")
    /\ k % 2 = 0 => tEvents[k].block = tEvents[k - 1].block
    /\ (k % 2 = 1 /\ k > 1) => tEvents[k].block > tEvents[k - 1].block

C24_EntriesInBlockOrder ==
  /\ Len(tool_results) = Cardinality(ToolUseBlocks(tIdx))
  /\ {tool_results[k].block : k \in 1..Len(tool_results)} = ToolUseBlocks(tIdx)
  /\ \A k \in 1..(Len(tool_results) - 1) :
       tool_results[k].block < tool_results[k + 1].block

C24_SerialDispatch == C24_OneAtATime /\ C24_EntriesInBlockOrder

\* A response with three tool_use blocks was handled: one call failed, one
\* tool was unknown, and there are three entries.
C24_Witness ==
  /\ mode = "turn"
  /\ tPc = "done"
  /\ Len(tool_results) = 3
  /\ \E k \in 1..3 : tool_results[k].kind = "error"
  /\ \E k \in 1..3 : tool_results[k].kind = "notfound"
  /\ Len(tEvents) = 4

\* C25: what a process-backend client writes for a request is exactly one
\* frame: a Content-Length header giving N, a blank line, and the JSON body
\* of the request, which is N bytes long.
IsOneFrame(bytes, body) ==
  /\ Contains(bytes, CRLFCRLF)
  /\ LET header == Slice(bytes, 0, Find(bytes, CRLFCRLF))
         rest == SliceFrom(bytes, Find(bytes, CRLFCRLF) + 4)
     IN /\ OccursAt(header, ContentLengthKey, 1)
        /\ ParseInt(Strip(SliceFrom(header, Len(ContentLengthKey))))
             = Len(body)
        /\ rest = body

C25_RequestIsOneFrame ==
  wKind /= "none" => IsOneFrame(wBytes, JsonDumps(wRequest))

\* C26: when two registered backends advertise a tool of the same name, a
\* tool_use block for that name is dispatched to the backend registered
\* later, exactly once, and never to the earlier one.
Advertisers(tool_name) ==
  {k \in 1..Len(mcps) :
     \E t \in 1..Len(mcps[k].tools) : mcps[k].tools[t] = tool_name}

C26_LaterBackendServes ==
  (turnDispatch.use /= "" /\ Cardinality(Advertisers(turnDispatch.use)) >= 2)
  => LET later == CHOOSE k \in Advertisers(turnDispatch.use) :
                    \A j \in Advertisers(turnDispatch.use) : j <= k
     IN turnDispatch.calls =
          <<[server |-> mcps[later].name, client |-> mcps[later].client]>>

\* A tool_use block for a tool that two registered backends advertise was
\* dispatched.
C26_Witness ==
  /\ mode = "chatbot"
  /\ turnDispatch.use = "t1"
  /\ Cardinality(Advertisers("t1")) = 2
  /\ Len(turnDispatch.calls) = 1

\* C27: the bundled servers answer every well-formed request frame they
\* read with one response that carries the id of the request and either a
\* result or an error, in the order of the requests; a failing tool and an
\* unknown method are answered with an error.
Fails(request) ==
  \/ request.method \notin {"initialize", "tools/call"}
  \/ request.method = "tools/call" /\ request.tool /= "ok"

C27_EveryRequestAnswered ==
  \A k \in 1..Len(vLog) :
    /\ vLog[k].response.kind \in {"result", "error"}
    /\ vLog[k].response.id = vLog[k].request.id
    /\ Fails(vLog[k].request) => vLog[k].response.kind = "error"

\* C28: when two threads call MCPClient.call on one client at the same
\* time, the requests have distinct ids and each caller waits for the id it
\* sent.
C28_OwnDistinctIds ==
  /\ \A i, j \in 1..Len(sentLog) : sentLog[i] = sentLog[j] => i = j
  /\ \A t \in threads :
       th[t].pc \in {"loop", "get", "check"} => th[t].waitId = th[t].msgId

\* C29: no request other than initialize is written to a child before an
\* initialize request was answered without error.  An MCPClient is in the
\* body of call() only when _initialized is true, and _initialized is true
\* only after a response was received; a StdioMCPClient has a tools/call
\* request written only after an initialize() of it has succeeded.
C29_McpClientHandshakeFirst ==
  /\ \A t \in threads :
       (th[t].phase = "call" /\ th[t].pc /= "idle") => initialized
  /\ initialized => \E r \in returnedLog : r.got = r.waited

C29_StdioHandshakeFirst ==
  (co.op = "call_tool" /\ co.pc = "read" /\ co.reqId \in sInbox) => sReady

C29_HandshakeBeforeRequests ==
  C29_McpClientHandshakeFirst /\ C29_StdioHandshakeFirst

====
